---- MODULE Spec2Model ----
(***************************************************************************)
(* Model of the version-history graph core of vscode-forge:                *)
(*   hotfix-parser  (parseHotfixVersion, buildHotfixRelationships,         *)
(*                   enrichVersionsWithHotfixData)                         *)
(*   graph-layout   (VersionGraphLayout.buildGraph and its private steps)  *)
(* Strings are sequences of one-character strings, so that the regular     *)
(* expression of parseHotfixVersion is matched character by character.     *)
(***************************************************************************)
EXTENDS Integers, Sequences, FiniteSets, TLC

VARIABLES
    version,    \* parser harness: the version string handed to parseHotfixVersion
    suffixes,   \* parser harness: the caller-supplied suffix list
    pieces,     \* parser harness: number of pieces the version was typed from
    parsed,     \* parser harness: TRUE once parseHotfixVersion was called
    info,       \* parser harness: what parseHotfixVersion returned (or that it threw)
    baseInfo,   \* parser harness: what parsing the returned bases, one after the other, returned
    versions,   \* graph harness: the caller's array of version history entries
    layout,     \* graph harness: the LayoutOptions handed to new VersionGraphLayout
    called,     \* graph harness: the function that was called ("none" before)
    result,     \* graph harness: what the call returned
    pushed,     \* graph harness: edges pushed by each loop of createNodesAndEdges
    previous,   \* graph harness: what the earlier calls of buildGraph returned
    gitUpdateTimeout, \* extension: the handle kept in gitUpdateTimeout (0 for undefined)
    timers,           \* extension: the handles of the timers that are set and not yet run
    gitLog,           \* extension: watcher events and the calls the timer callback made
    subscriptions,    \* extension: "live" until context.subscriptions are disposed
    installation, \* ForgeService: the cached ForgeInstallation ("null", "installed", "missing")
    forgeInPath, \* environment: whether 'forge --version' succeeds
    goInstalled, \* environment: whether 'go version' succeeds
    installPc, \* ensureInstalled: where the top-level call stands
    retryCount, \* ensureInstalled: the parameter of the running invocation
    attempt, \* ensureInstalled: invocations, install prompts and installForge calls so far
    returned, \* ensureInstalled: what the top-level call returned ("none" before)
    treeConfig, \* tree view: what configService.hasConfig() does ("present", "absent", "fails")
    treeSuffixes, \* tree view: the setting forge.hotfixSuffixes
    treeHistory, \* tree view: the versions forge's history holds
    treeFetch, \* tree view: what forgeService.getVersionHistory() does ("ok", "fails")
    treeItems, \* tree view: what getRootItems returned
    treeCalled, \* tree view: TRUE once getRootItems was called
    statusBarItem, \* status bar: the item's text, background colour, command and visibility
    currentApp, \* status bar: StatusBarManager.currentApp ("" for undefined)
    updates, \* status bar: the updateVersion calls started, each with the app it captured
    environment, \* status bar: whether forge is installed, a config exists, the folder is a git repository
    currentPanel, \* graph panel: VersionGraphPanel.currentPanel (0 for undefined, else the panel's number)
    panels, \* graph panel: the webview panels created so far, each with its instance's fields
    shows, \* graph panel: how many times show was called
    lastShow \* graph panel: the arguments of the last show call

vars ==
    <<version, suffixes, pieces, parsed, info, baseInfo, versions, layout, called, result, pushed,
      previous, gitUpdateTimeout, timers, gitLog, subscriptions,
      installation, forgeInPath, goInstalled, installPc, retryCount, attempt, returned,
      treeConfig, treeSuffixes, treeHistory, treeFetch, treeItems, treeCalled,
      statusBarItem, currentApp, updates, environment,
      currentPanel, panels, shows, lastShow>>
parserVars == <<version, suffixes, pieces, parsed, info, baseInfo>>
graphVars == <<versions, layout, called, result, pushed, previous>>
debounceVars == <<gitUpdateTimeout, timers, gitLog, subscriptions>>
installVars == <<installation, forgeInPath, goInstalled, installPc, retryCount, attempt, returned>>
treeVars == <<treeConfig, treeSuffixes, treeHistory, treeFetch, treeItems, treeCalled>>
statusVars == <<statusBarItem, currentApp, updates, environment>>
panelVars == <<currentPanel, panels, shows, lastShow>>

\* the variables of the extension's components, per harness those it leaves alone
uiVars == <<debounceVars, installVars, treeVars, statusVars, panelVars>>
beyondDebounce == <<parserVars, graphVars, installVars, treeVars, statusVars, panelVars>>
beyondInstall == <<parserVars, graphVars, debounceVars, treeVars, statusVars, panelVars>>
beyondTree == <<parserVars, graphVars, debounceVars, installVars, statusVars, panelVars>>
beyondStatus == <<parserVars, graphVars, debounceVars, installVars, treeVars, panelVars>>
beyondPanel == <<parserVars, graphVars, debounceVars, installVars, treeVars, statusVars>>

\* no watcher event yet
DebounceIdle ==
    /\ gitUpdateTimeout = 0
    /\ timers = {}
    /\ gitLog = <<>>
    /\ subscriptions = "live"

\* ensureInstalled is not called and nothing is cached
InstallIdle ==
    /\ installation = "null"
    /\ forgeInPath = FALSE
    /\ goInstalled = FALSE
    /\ installPc = "idle"
    /\ retryCount = 0
    /\ attempt = [topLevel |-> 0, calls |-> 0, prompts |-> 0, installs |-> 0, shown |-> <<>>]
    /\ returned = "none"

\* the version history tree is not asked for its items
TreeIdle ==
    /\ treeConfig = "absent"
    /\ treeSuffixes = <<>>
    /\ treeHistory = <<>>
    /\ treeFetch = "ok"
    /\ treeItems = <<>>
    /\ treeCalled = FALSE

\* the status bar as constructed, no call made
StatusIdle ==
    /\ statusBarItem = [text |-> <<>>, backgroundColor |-> "undefined", command |-> "forge.showVersionInfo", visible |-> FALSE]
    /\ currentApp = ""
    /\ updates = <<>>
    /\ environment = [installed |-> TRUE, hasConfig |-> TRUE, isGitRepo |-> TRUE]

\* no version graph panel was shown
PanelIdle ==
    /\ currentPanel = 0
    /\ panels = <<>>
    /\ shows = 0
    /\ lastShow = <<>>

\* the components a harness does not use stay as they are constructed
UiIdle ==
    /\ DebounceIdle
    /\ InstallIdle
    /\ TreeIdle
    /\ StatusIdle
    /\ PanelIdle

(***************************************************************************)
(* Bounds and input pools of the parser harness                            *)
(***************************************************************************)
MaxPieces == 4

\* the pieces a version string is typed from: single characters and one
\* ready-made marker "-f.1" (so that two markers fit within MaxPieces)
Pieces ==
    { <<"v">>, <<"-">>, <<".">>, <<"1">>, <<"0">>, <<"f">>, <<"p">>, <<"\n">>,
      <<"-", "f", ".", "1">> }

\* the suffix lists a caller may configure (forge.hotfixSuffixes is free text)
SuffixLists ==
    { <<>>,                         \* empty list
      << <<"f">> >>,                \* one plain word
      << <<"f">>, <<"p">> >>,       \* two plain words
      << <<".">> >>,                \* a regex wildcard
      << <<"(">> >>,                \* an unbalanced group
      << <<"f", "|", "p">> >> }     \* one element holding an alternation

(***************************************************************************)
(* JavaScript RegExp pieces used by parseHotfixVersion                     *)
(***************************************************************************)
\* "." matches any character except a line terminator
LineTerminators == {"\n", "\r"}

\* \d matches the ASCII digits
IsDigit(c) == c \in {"0", "1", "2", "3", "4", "5", "6", "7", "8", "9"}

DigitOf(c) ==
    CASE c = "0" -> 0 [] c = "1" -> 1 [] c = "2" -> 2 [] c = "3" -> 3
      [] c = "4" -> 4 [] c = "5" -> 5 [] c = "6" -> 6 [] c = "7" -> 7
      [] c = "8" -> 8 [] c = "9" -> 9

\* parseInt(digits, 10) on a string of digits
RECURSIVE parseInt(_)
parseInt(ds) ==
    IF ds = <<>> THEN 0
    ELSE parseInt(SubSeq(ds, 1, Len(ds) - 1)) * 10 + DigitOf(ds[Len(ds)])

\* suffixes.join('|')
RECURSIVE join(_)
join(ss) ==
    IF ss = <<>> THEN <<>>
    ELSE IF Len(ss) = 1 THEN ss[1]
    ELSE ss[1] \o <<"|">> \o join(Tail(ss))

\* new RegExp(...) throws a SyntaxError on an unterminated group; over the
\* suffix characters modelled here ("f", "p", ".", "|", "(") the pattern
\* ^(.+)-(<src>)\.(\d+)$ compiles exactly when <src> holds no "("
RegExpCompiles(src) == \A i \in 1..Len(src) : src[i] # "("

\* the alternatives of the group (<src>): <src> split at every "|"
RECURSIVE Alternatives(_)
Alternatives(src) ==
    IF \A i \in 1..Len(src) : src[i] # "|" THEN << src >>
    ELSE LET k == CHOOSE i \in 1..Len(src) :
                      src[i] = "|" /\ \A j \in 1..(i - 1) : src[j] # "|"
         IN  << SubSeq(src, 1, k - 1) >> \o Alternatives(SubSeq(src, k + 1, Len(src)))

\* one alternative matched against s from position start: a "." in the
\* alternative is the wildcard, every other character is literal
AltMatchesAt(alt, s, start) ==
    /\ start + Len(alt) - 1 <= Len(s)
    /\ \A k \in 1..Len(alt) :
          IF alt[k] = "." THEN s[start + k - 1] \notin LineTerminators
                          ELSE s[start + k - 1] = alt[k]

\* \.(\d+)$ matched against s from position p
SequenceMatchesAt(s, p) ==
    /\ p < Len(s)
    /\ s[p] = "."
    /\ \A j \in (p + 1)..Len(s) : IsDigit(s[j])

\* the part of the pattern after (.+), for a base of length n and one alternative
MarkerMatches(s, n, alt) ==
    /\ n + 1 <= Len(s)
    /\ s[n + 1] = "-"
    /\ AltMatchesAt(alt, s, n + 2)
    /\ SequenceMatchesAt(s, n + 2 + Len(alt))

\* ^(.+) with a base of length n: at least one character, no line terminator
BaseMatches(s, n) ==
    /\ n >= 1
    /\ \A i \in 1..n : s[i] \notin LineTerminators

NotHotfix == [isHotfix |-> FALSE]
SyntaxError == [threw |-> "SyntaxError"]

Threw(r) == "threw" \in DOMAIN r

\* base lengths for which the whole pattern matches
MatchLengths(v, alts) ==
    { n \in 1..Len(v) :
        /\ \E a \in 1..Len(alts) : MarkerMatches(v, n, alts[a])
        /\ BaseMatches(v, n) }

\* the alternatives are tried left to right: the first matching one wins
FirstAlternative(v, n, alts) ==
    CHOOSE i \in 1..Len(alts) :
        /\ MarkerMatches(v, n, alts[i])
        /\ \A j \in 1..(i - 1) : ~MarkerMatches(v, n, alts[j])

\* match[1], match[2], match[3] for a base of n and a suffix of m characters
Captures(v, n, m) ==
    [ isHotfix    |-> TRUE,
      baseVersion |-> SubSeq(v, 1, n),
      suffix      |-> SubSeq(v, n + 2, n + 1 + m),
      sequence    |-> parseInt(SubSeq(v, n + 3 + m, Len(v))) ]

MatchAt(v, n, alts) == Captures(v, n, Len(alts[FirstAlternative(v, n, alts)]))

\* (.+) is greedy, so the longest base wins
LongestMatch(v, lengths, alts) ==
    IF lengths = {} THEN NotHotfix
    ELSE MatchAt(v, CHOOSE m \in lengths : \A k \in lengths : k <= m, alts)

\* version.match(pattern)
Match(v, alts) == LongestMatch(v, MatchLengths(v, alts), alts)

parseHotfixVersion(v, ss) ==
    IF ~RegExpCompiles(join(ss)) THEN SyntaxError
    ELSE Match(v, Alternatives(join(ss)))

(***************************************************************************)
(* JavaScript objects, Maps and Array.prototype.sort                       *)
(***************************************************************************)
\* the elements of a sequence
Range(seq) == { seq[i] : i \in 1..Len(seq) }

\* An object is a record; an optional property that is missing or undefined
\* is a field the record does not have.
Has(obj, key) == key \in DOMAIN obj

Without(obj, keys) == [k \in (DOMAIN obj) \ keys |-> obj[k]]

\* { ...obj, <props> }: the properties written after the spread win
Spread(obj, props) == props @@ obj

\* A Map is the sequence of its [key, value] entries in insertion order.
MapHas(map, key) == \E i \in 1..Len(map) : map[i].key = key

MapGet(map, key) == map[CHOOSE i \in 1..Len(map) : map[i].key = key].value

\* map.get(key) || fallback
MapGetOr(map, key, fallback) == IF MapHas(map, key) THEN MapGet(map, key) ELSE fallback

\* map.set(key, value): an existing key keeps its place
MapSet(map, key, value) ==
    IF MapHas(map, key)
    THEN [i \in 1..Len(map) |-> IF map[i].key = key
                                THEN [key |-> key, value |-> value] ELSE map[i]]
    ELSE Append(map, [key |-> key, value |-> value])

\* items.sort((a, b) => key(a) - key(b)): the sort is stable, so the place of
\* item i is the number of items that have a smaller key, or an equal key and
\* an earlier place
SortRank(keys, i) ==
    Cardinality({ j \in 1..Len(keys) : keys[j] < keys[i] \/ (keys[j] = keys[i] /\ j < i) }) + 1

SortByKeys(items, keys) ==
    [k \in 1..Len(items) |-> items[CHOOSE i \in 1..Len(items) : SortRank(keys, i) = k]]

(***************************************************************************)
(* hotfix-parser: buildHotfixRelationships, enrichVersionsWithHotfixData   *)
(***************************************************************************)
\* hotfixInfo.sequence || 0
SequenceOf(hotfixInfo) == IF hotfixInfo.isHotfix THEN hotfixInfo.sequence ELSE 0

\* parseHotfixVersion(s, suffixes).sequence || 0
SequenceOrZero(s, ss) == SequenceOf(parseHotfixVersion(s, ss))

\* one step of the loop over versions: a hotfix entry's tag is pushed to the
\* group of the base version parsed from entry.version
PushChild(relationships, v, hotfixInfo) ==
    IF hotfixInfo.isHotfix /\ hotfixInfo.baseVersion # <<>>
    THEN MapSet(relationships, hotfixInfo.baseVersion,
                Append(MapGetOr(relationships, hotfixInfo.baseVersion, <<>>), v.tag))
    ELSE relationships

RECURSIVE GroupByBase(_, _, _)
GroupByBase(relationships, vs, ss) ==
    IF vs = <<>> THEN relationships
    ELSE GroupByBase(
             PushChild(relationships, Head(vs), parseHotfixVersion(Head(vs).version, ss)),
             Tail(vs), ss)

\* children.sort(...): the comparator parses the child TAGS
SortChildren(children, ss) ==
    SortByKeys(children, [i \in 1..Len(children) |-> SequenceOrZero(children[i], ss)])

\* the loop over relationships.entries(): every group is sorted in place
SortGroups(relationships, ss) ==
    [i \in 1..Len(relationships) |->
        [ key   |-> relationships[i].key,
          value |-> SortChildren(relationships[i].value, ss) ]]

\* The call's effect: the caller's array after the call, and the returned Map.
buildHotfixRelationships(vs, ss) ==
    [ versions |-> vs,
      returned |-> SortGroups(GroupByBase(<<>>, vs, ss), ss) ]

\* a faulty variant, { isHotfix, baseTag, hotfixSequence, ...v }: the derived
\* fields the input carries win
WithInputFieldsKept(v, hotfixInfo) ==
    IF hotfixInfo.isHotfix
    THEN Spread([ isHotfix       |-> TRUE,
                  baseTag        |-> hotfixInfo.baseVersion,
                  hotfixSequence |-> hotfixInfo.sequence ], v)
    ELSE Spread([isHotfix |-> FALSE], v)

\* { ...v, isHotfix, baseTag, hotfixSequence }
WithHotfixInfo(v, hotfixInfo) ==
    IF hotfixInfo.isHotfix
    THEN Spread(v, [ isHotfix       |-> TRUE,
                     baseTag        |-> hotfixInfo.baseVersion,
                     hotfixSequence |-> hotfixInfo.sequence ])
    ELSE Spread(Without(v, {"baseTag", "hotfixSequence"}), [isHotfix |-> FALSE])

\* first pass: versions.map(v => ...)
EnrichFirstPass(vs, ss) ==
    [i \in 1..Len(vs) |-> WithHotfixInfo(vs[i], parseHotfixVersion(vs[i].version, ss))]

\* a faulty variant: children are looked up for non-hotfix entries only
ChildrenForReleasesOnly(enriched, childMap) ==
    [i \in 1..Len(enriched) |->
        Spread(enriched[i],
               [children |-> IF enriched[i].isHotfix THEN <<>>
                             ELSE MapGetOr(childMap, enriched[i].version, <<>>)])]

\* second pass: { ...v, children: childMap.get(v.version) || [] }
EnrichSecondPass(enriched, childMap) ==
    [i \in 1..Len(enriched) |->
        Spread(enriched[i], [children |-> MapGetOr(childMap, enriched[i].version, <<>>)])]

\* a faulty variant: the entries of the caller's array are enriched in place
InPlace(enriched) == [versions |-> enriched, returned |-> enriched]

EnrichInPlace(vs, ss) ==
    InPlace([i \in 1..Len(vs) |->
        Spread(WithHotfixInfo(vs[i], parseHotfixVersion(vs[i].version, ss)),
               [children |-> MapGetOr(buildHotfixRelationships(vs, ss).returned,
                                      vs[i].version, <<>>)])])

\* The call's effect: the caller's array after the call, and the returned array.
enrichVersionsWithHotfixData(vs, ss) ==
    [ versions |-> vs,
      returned |-> EnrichSecondPass(EnrichFirstPass(vs, ss),
                                    buildHotfixRelationships(vs, ss).returned) ]

(***************************************************************************)
(* graph-layout: VersionGraphLayout                                        *)
(***************************************************************************)
Hotfix == <<"h", "o", "t", "f", "i", "x">>
Patch == <<"p", "a", "t", "c", "h">>
Fix == <<"f", "i", "x">>

DEFAULT_OPTIONS ==
    [ verticalSpacing   |-> 80,
      horizontalSpacing |-> 150,
      nodeRadius        |-> 20,
      hotfixSuffixes    |-> <<Hotfix, Patch, Fix>> ]

horizontalPadding == 200
verticalPadding == 100

\* constructor: this.options = { ...DEFAULT_OPTIONS, ...options }
Options(layoutOptions) == Spread(DEFAULT_OPTIONS, layoutOptions)

Indices(n) == [i \in 1..n |-> i]

Maximum(S) == CHOOSE m \in S : \A k \in S : k <= m

\* a faulty variant: the node id is taken from the version string
CreateNodeIdFromVersion(v) ==
    Spread([ id       |-> v.version,
             version  |-> v.version,
             commit   |-> v.commit,
             date     |-> v.date,
             message  |-> v.message,
             isHotfix |-> IF Has(v, "isHotfix") THEN v.isHotfix ELSE FALSE,
             children |-> IF Has(v, "children") THEN v.children ELSE <<>>,
             x        |-> 0,
             y        |-> 0 ],
           IF Has(v, "baseTag") THEN [baseTag |-> v.baseTag] ELSE << >>)

\* the node object made for one enriched entry
CreateNode(v) ==
    LET node == [ id       |-> v.tag,
                  version  |-> v.version,
                  commit   |-> v.commit,
                  date     |-> v.date,
                  message  |-> v.message,
                  isHotfix |-> IF Has(v, "isHotfix") THEN v.isHotfix ELSE FALSE,
                  children |-> IF Has(v, "children") THEN v.children ELSE <<>>,
                  x        |-> 0,
                  y        |-> 0 ]
    IN  IF Has(v, "baseTag") THEN Spread(node, [baseTag |-> v.baseTag]) ELSE node

CreateNodes(vs) == [i \in 1..Len(vs) |-> CreateNode(vs[i])]

\* node.isHotfix && node.baseTag: an empty string is falsy
HasBaseTag(node) == node.isHotfix /\ Has(node, "baseTag") /\ node.baseTag # <<>>

\* Array.from(nodeMap.values()): nodeMap is keyed by tag, so a tag keeps the
\* place of its first node and holds its last node. Nodes are named by their
\* index in the node list.
FirstOfId(nodes, i) == \A j \in 1..(i - 1) : nodes[j].id # nodes[i].id

LastOfId(nodes, i) == Maximum({ j \in 1..Len(nodes) : nodes[j].id = nodes[i].id })

LastOfEach(nodes, firsts) == [k \in 1..Len(firsts) |-> LastOfId(nodes, firsts[k])]

NodeMapValues(nodes) ==
    LastOfEach(nodes, SelectSeq(Indices(Len(nodes)), LAMBDA i : FirstOfId(nodes, i)))

\* a faulty variant: the base is looked up by tag only
FindBaseNodeById(nodes, baseTag) ==
    IF \A j \in 1..Len(nodes) : nodes[j].id # baseTag THEN 0
    ELSE Maximum({ j \in 1..Len(nodes) : nodes[j].id = baseTag })

\* values.find(n => n.version === baseTag || n.id === baseTag): the index of
\* the first such node, 0 for undefined
Find(nodes, values, baseTag) ==
    IF \A k \in 1..Len(values) :
          nodes[values[k]].version # baseTag /\ nodes[values[k]].id # baseTag
    THEN 0
    ELSE values[CHOOSE k \in 1..Len(values) :
                  /\ nodes[values[k]].version = baseTag \/ nodes[values[k]].id = baseTag
                  /\ \A h \in 1..(k - 1) :
                        nodes[values[h]].version # baseTag /\ nodes[values[h]].id # baseTag]

FindBaseNode(nodes, baseTag) == Find(nodes, NodeMapValues(nodes), baseTag)

\* a faulty variant: the filter is left out
AllNodes(nodes) == Indices(Len(nodes))

\* nodes.filter(n => !n.isHotfix), as indices
MainLineNodes(nodes) == SelectSeq(Indices(Len(nodes)), LAMBDA i : ~nodes[i].isHotfix)

\* one edge between every two consecutive nodes of a list
ConsecutiveEdges(ids, isHotfix) ==
    [i \in 1..(Len(ids) - 1) |-> [from |-> ids[i], to |-> ids[i + 1], isHotfix |-> isHotfix]]

IdsOf(nodes, indices) == [k \in 1..Len(indices) |-> nodes[indices[k]].id]

\* edges between consecutive releases on the main line
MainLineEdges(nodes) == ConsecutiveEdges(IdsOf(nodes, MainLineNodes(nodes)), FALSE)

\* the edge from baseNode.id to node.id
BaseEdge(nodes, baseNode, node) ==
    [from |-> nodes[baseNode].id, to |-> node.id, isHotfix |-> TRUE]

\* edges from base versions to hotfixes: none for a hotfix whose base is not found
RECURSIVE BaseEdgesFrom(_, _)
BaseEdgesFrom(nodes, i) ==
    IF i > Len(nodes) THEN <<>>
    ELSE (IF HasBaseTag(nodes[i]) /\ FindBaseNode(nodes, nodes[i].baseTag) # 0
          THEN << BaseEdge(nodes, FindBaseNode(nodes, nodes[i].baseTag), nodes[i]) >>
          ELSE <<>>)
         \o BaseEdgesFrom(nodes, i + 1)

BaseEdges(nodes) == BaseEdgesFrom(nodes, 1)

\* [...node.children].sort(...): the comparator parses the child tags
SortedChildren(children, ss) ==
    SortByKeys(children, [i \in 1..Len(children) |-> SequenceOrZero(children[i], ss)])

\* edges between consecutive hotfixes of one non-hotfix node
ChainOf(node, ss) ==
    IF ~node.isHotfix /\ Len(node.children) > 0
    THEN ConsecutiveEdges(SortedChildren(node.children, ss), TRUE)
    ELSE <<>>

RECURSIVE ChainEdgesFrom(_, _, _)
ChainEdgesFrom(nodes, i, ss) ==
    IF i > Len(nodes) THEN <<>>
    ELSE ChainOf(nodes[i], ss) \o ChainEdgesFrom(nodes, i + 1, ss)

ChainEdges(nodes, ss) == ChainEdgesFrom(nodes, 1, ss)

\* the three loops push their edges one after the other; "pushed" records how
\* many each loop pushed
EdgesOf(nodes, mainLine, base, chain) ==
    [ nodes  |-> nodes,
      edges  |-> mainLine \o base \o chain,
      pushed |-> [mainLine |-> Len(mainLine), base |-> Len(base), chain |-> Len(chain)] ]

NodesAndEdges(nodes, options) ==
    EdgesOf(nodes, MainLineEdges(nodes), BaseEdges(nodes),
            ChainEdges(nodes, options.hotfixSuffixes))

createNodesAndEdges(vs, options) == NodesAndEdges(CreateNodes(vs), options)

\* the place of index i in a list of indices, counted from 0
IndexIn(indices, i) == (CHOOSE k \in 1..Len(indices) : indices[k] = i) - 1

\* a main line whose index counts all nodes, hotfixes included
PlaceMainLineByInputIndex(nodes, mainLineNodes, options) ==
    [i \in 1..Len(nodes) |->
        IF nodes[i].isHotfix THEN nodes[i]
        ELSE [nodes[i] EXCEPT !.x = 0, !.y = (i - 1) * options.verticalSpacing]]

\* main line: x = 0, y = index * verticalSpacing
PlaceMainLine(nodes, mainLineNodes, options) ==
    [i \in 1..Len(nodes) |->
        IF nodes[i].isHotfix THEN nodes[i]
        ELSE [nodes[i] EXCEPT !.x = 0,
                              !.y = IndexIn(mainLineNodes, i) * options.verticalSpacing]]

PositionMainLine(nodes, options) == PlaceMainLine(nodes, MainLineNodes(nodes), options)

\* hotfixGroups: Map from baseTag to the hotfix nodes (indices) carrying it
RECURSIVE GroupHotfixes(_, _, _)
GroupHotfixes(hotfixGroups, nodes, i) ==
    IF i > Len(nodes) THEN hotfixGroups
    ELSE GroupHotfixes(
             IF HasBaseTag(nodes[i])
             THEN MapSet(hotfixGroups, nodes[i].baseTag,
                         Append(MapGetOr(hotfixGroups, nodes[i].baseTag, <<>>), i))
             ELSE hotfixGroups,
             nodes, i + 1)

\* hotfixes.sort(...): the comparator parses the hotfix nodes' versions
SortedHotfixes(nodes, hotfixes, ss) ==
    SortByKeys(hotfixes,
               [i \in 1..Len(hotfixes) |-> SequenceOrZero(nodes[hotfixes[i]].version, ss)])

\* hotfixes.forEach((hotfix, index) => ...), one hotfix after the other
RECURSIVE PlaceHotfixes(_, _, _, _, _)
PlaceHotfixes(nodes, hotfixes, index, baseNode, options) ==
    IF index > Len(hotfixes) THEN nodes
    ELSE PlaceHotfixes(
             [nodes EXCEPT ![hotfixes[index]] =
                 [@ EXCEPT !.x = index * options.horizontalSpacing,
                           !.y = nodes[baseNode].y]],
             hotfixes, index + 1, baseNode, options)

\* one group: nothing is placed when the base node is not found
PositionGroup(nodes, group, baseNode, options) ==
    IF baseNode = 0 THEN nodes
    ELSE PlaceHotfixes(nodes, SortedHotfixes(nodes, group.value, options.hotfixSuffixes),
                       1, baseNode, options)

\* the loop over hotfixGroups.entries(), one group after the other
RECURSIVE PositionGroups(_, _, _, _)
PositionGroups(nodes, hotfixGroups, g, options) ==
    IF g > Len(hotfixGroups) THEN nodes
    ELSE PositionGroups(
             PositionGroup(nodes, hotfixGroups[g],
                           FindBaseNode(nodes, hotfixGroups[g].key), options),
             hotfixGroups, g + 1, options)

\* nodes.filter(n => n.isHotfix && n.x === 0 && n.y === 0), as indices
OrphanedHotfixes(nodes) ==
    SelectSeq(Indices(Len(nodes)),
              LAMBDA i : nodes[i].isHotfix /\ nodes[i].x = 0 /\ nodes[i].y = 0)

\* Math.max(...mainLineNodes.map(n => n.y), 0)
MainLineMaxY(nodes) == Maximum({ nodes[i].y : i \in Range(MainLineNodes(nodes)) } \cup {0})

\* orphans spaced by horizontalSpacing along y
PlaceOrphansByHorizontalSpacing(nodes, orphanedHotfixes, maxY, options) ==
    [i \in 1..Len(nodes) |->
        IF i \in Range(orphanedHotfixes)
        THEN [nodes[i] EXCEPT
                 !.x = options.horizontalSpacing,
                 !.y = maxY + (IndexIn(orphanedHotfixes, i) + 1) * options.horizontalSpacing]
        ELSE nodes[i]]

\* orphaned hotfixes are placed below the main line
PlaceOrphans(nodes, orphanedHotfixes, maxY, options) ==
    [i \in 1..Len(nodes) |->
        IF i \in Range(orphanedHotfixes)
        THEN [nodes[i] EXCEPT
                 !.x = options.horizontalSpacing,
                 !.y = maxY + (IndexIn(orphanedHotfixes, i) + 1) * options.verticalSpacing]
        ELSE nodes[i]]

PositionOrphans(nodes, options) ==
    PlaceOrphans(nodes, OrphanedHotfixes(nodes), MainLineMaxY(nodes), options)

PositionHotfixes(nodes, options) ==
    PositionGroups(nodes, GroupHotfixes(<<>>, nodes, 1), 1, options)

\* the nodes after calculatePositions has assigned x and y
calculatePositions(nodes, options) ==
    PositionOrphans(PositionHotfixes(PositionMainLine(nodes, options), options), options)

\* bounds around the main line only
BoundsOfMainLine(nodes) ==
    IF Len(nodes) = 0 THEN [width |-> 0, height |-> 0]
    ELSE [ width  |-> horizontalPadding,
           height |-> MainLineMaxY(nodes) + verticalPadding ]

calculateBounds(nodes) ==
    IF Len(nodes) = 0 THEN [width |-> 0, height |-> 0]
    ELSE [ width  |-> Maximum({ nodes[i].x : i \in 1..Len(nodes) } \cup {0}) + horizontalPadding,
           height |-> Maximum({ nodes[i].y : i \in 1..Len(nodes) } \cup {0}) + verticalPadding ]

\* a buildGraph that leaves the caller's array reversed
GraphLayoutReversingInput(vs, nodes, created, bounds) ==
    [ versions |-> [i \in 1..Len(vs) |-> vs[Len(vs) + 1 - i]],
      returned |-> [ nodes  |-> nodes,
                     edges  |-> created.edges,
                     width  |-> bounds.width,
                     height |-> bounds.height ],
      pushed   |-> created.pushed ]

\* return { nodes, edges, width, height }; "pushed" is kept for the record
GraphLayout(vs, nodes, created, bounds) ==
    [ versions |-> vs,
      returned |-> [ nodes  |-> nodes,
                     edges  |-> created.edges,
                     width  |-> bounds.width,
                     height |-> bounds.height ],
      pushed   |-> created.pushed ]

Positioned(vs, nodes, created) == GraphLayout(vs, nodes, created, calculateBounds(nodes))

Layout(vs, created, options) ==
    Positioned(vs, calculatePositions(created.nodes, options), created)

BuildWith(vs, options) ==
    Layout(vs,
           createNodesAndEdges(
               enrichVersionsWithHotfixData(vs, options.hotfixSuffixes).returned, options),
           options)

\* a buildGraph that pads the bounds of the empty graph as well
BuildGraphPaddingEmpty(vs, layoutOptions) ==
    IF Len(vs) = 0
    THEN [ versions |-> vs,
           returned |-> [nodes |-> <<>>, edges |-> <<>>,
                         width |-> horizontalPadding, height |-> verticalPadding],
           pushed   |-> [mainLine |-> 0, base |-> 0, chain |-> 0] ]
    ELSE BuildWith(vs, Options(layoutOptions))

\* The call's effect: the caller's array after the call, the returned
\* GraphLayout, and how many edges each loop of createNodesAndEdges pushed.
buildGraph(vs, layoutOptions) ==
    IF Len(vs) = 0
    THEN [ versions |-> vs,
           returned |-> [nodes |-> <<>>, edges |-> <<>>, width |-> 0, height |-> 0],
           pushed   |-> [mainLine |-> 0, base |-> 0, chain |-> 0] ]
    ELSE BuildWith(vs, Options(layoutOptions))

(***************************************************************************)
(* graph-layout, first variant of VersionGraphLayout: the main line runs    *)
(* along x, a hotfix's base is looked up by tag. Node creation, main-line   *)
(* edges and chain edges are the same code as above.                        *)
(***************************************************************************)
\* nodeMap.get(tag): the last node created with that tag, 0 for undefined
NodeMapGet(nodes, tag) ==
    IF \A j \in 1..Len(nodes) : nodes[j].id # tag THEN 0
    ELSE Maximum({ j \in 1..Len(nodes) : nodes[j].id = tag })

\* edges from base versions to hotfixes: from is node.baseTag itself
RECURSIVE BaseEdgesFromFirst(_, _)
BaseEdgesFromFirst(nodes, i) ==
    IF i > Len(nodes) THEN <<>>
    ELSE (IF HasBaseTag(nodes[i]) /\ NodeMapGet(nodes, nodes[i].baseTag) # 0
          THEN << [from |-> nodes[i].baseTag, to |-> nodes[i].id, isHotfix |-> TRUE] >>
          ELSE <<>>)
         \o BaseEdgesFromFirst(nodes, i + 1)

BaseEdgesFirst(nodes) == BaseEdgesFromFirst(nodes, 1)

NodesAndEdgesFirst(nodes, options) ==
    EdgesOf(nodes, MainLineEdges(nodes), BaseEdgesFirst(nodes),
            ChainEdges(nodes, options.hotfixSuffixes))

createNodesAndEdgesFirst(vs, options) == NodesAndEdgesFirst(CreateNodes(vs), options)

\* main line: x = index * horizontalSpacing, y = 0
PlaceMainLineFirst(nodes, mainLineNodes, options) ==
    [i \in 1..Len(nodes) |->
        IF nodes[i].isHotfix THEN nodes[i]
        ELSE [nodes[i] EXCEPT !.x = IndexIn(mainLineNodes, i) * options.horizontalSpacing,
                              !.y = 0]]

PositionMainLineFirst(nodes, options) ==
    PlaceMainLineFirst(nodes, MainLineNodes(nodes), options)

\* hotfixes.forEach((hotfix, index) => ...): stacked below the base node
RECURSIVE PlaceHotfixesFirst(_, _, _, _, _)
PlaceHotfixesFirst(nodes, hotfixes, index, baseNode, options) ==
    IF index > Len(hotfixes) THEN nodes
    ELSE PlaceHotfixesFirst(
             [nodes EXCEPT ![hotfixes[index]] =
                 [@ EXCEPT !.x = nodes[baseNode].x,
                           !.y = index * options.verticalSpacing]],
             hotfixes, index + 1, baseNode, options)

\* one group: "continue" when nodeMap.get(baseTag) is undefined
PositionGroupFirst(nodes, group, baseNode, options) ==
    IF baseNode = 0 THEN nodes
    ELSE PlaceHotfixesFirst(nodes,
                            SortedHotfixes(nodes, group.value, options.hotfixSuffixes),
                            1, baseNode, options)

RECURSIVE PositionGroupsFirst(_, _, _, _)
PositionGroupsFirst(nodes, hotfixGroups, g, options) ==
    IF g > Len(hotfixGroups) THEN nodes
    ELSE PositionGroupsFirst(
             PositionGroupFirst(nodes, hotfixGroups[g],
                                NodeMapGet(nodes, hotfixGroups[g].key), options),
             hotfixGroups, g + 1, options)

\* the nodes after calculatePositions: hotfixes without a base node stay at (0, 0)
calculatePositionsFirst(nodes, options) ==
    PositionGroupsFirst(PositionMainLineFirst(nodes, options),
                        GroupHotfixes(<<>>, nodes, 1), 1, options)

\* const padding = this.options.nodeRadius * 4
calculateBoundsFirst(nodes, options) ==
    IF Len(nodes) = 0 THEN [width |-> 0, height |-> 0]
    ELSE [ width  |-> Maximum({ nodes[i].x : i \in 1..Len(nodes) } \cup {0})
                          + options.nodeRadius * 4,
           height |-> Maximum({ nodes[i].y : i \in 1..Len(nodes) } \cup {0})
                          + options.nodeRadius * 4 ]

PositionedFirst(vs, nodes, created, options) ==
    GraphLayout(vs, nodes, created, calculateBoundsFirst(nodes, options))

LayoutFirst(vs, created, options) ==
    PositionedFirst(vs, calculatePositionsFirst(created.nodes, options), created, options)

BuildWithFirst(vs, options) ==
    LayoutFirst(vs,
                createNodesAndEdgesFirst(
                    enrichVersionsWithHotfixData(vs, options.hotfixSuffixes).returned,
                    options),
                options)

buildGraphFirst(vs, layoutOptions) ==
    IF Len(vs) = 0
    THEN [ versions |-> vs,
           returned |-> [nodes |-> <<>>, edges |-> <<>>, width |-> 0, height |-> 0],
           pushed   |-> [mainLine |-> 0, base |-> 0, chain |-> 0] ]
    ELSE BuildWithFirst(vs, Options(layoutOptions))

(***************************************************************************)
(* Parser harness: type a version string, then call parseHotfixVersion     *)
(***************************************************************************)
ParseInit ==
    /\ version = <<>>
    /\ pieces = 0
    /\ suffixes \in SuffixLists
    /\ parsed = FALSE
    /\ info = NotHotfix
    /\ baseInfo = <<>>
    /\ versions = <<>>
    /\ layout = << >>
    /\ called = "none"
    /\ result = << >>
    /\ pushed = [mainLine |-> 0, base |-> 0, chain |-> 0]
    /\ previous = <<>>
    /\ UiIdle

TypePiece ==
    /\ ~parsed
    /\ pieces < MaxPieces
    /\ \E p \in Pieces : version' = version \o p
    /\ pieces' = pieces + 1
    /\ UNCHANGED <<suffixes, parsed, info, baseInfo, graphVars, uiVars>>

CallParse ==
    /\ ~parsed
    /\ info' = parseHotfixVersion(version, suffixes)
    /\ parsed' = TRUE
    /\ UNCHANGED <<version, suffixes, pieces, baseInfo, graphVars, uiVars>>

\* the HotfixInfo whose baseVersion is parsed next: the last one returned
LastInfo == IF baseInfo = <<>> THEN info ELSE baseInfo[Len(baseInfo)]

\* parseHotfixVersion on the baseVersion the last call returned
CallParseBase ==
    /\ parsed
    /\ ~Threw(LastInfo)
    /\ LastInfo.isHotfix
    /\ baseInfo' = Append(baseInfo, parseHotfixVersion(LastInfo.baseVersion, suffixes))
    /\ UNCHANGED <<version, suffixes, pieces, parsed, info, graphVars, uiVars>>

ParseNext == TypePiece \/ CallParse \/ CallParseBase

ParseSpec == ParseInit /\ [][ParseNext]_vars

(***************************************************************************)
(* Graph harness: collect version history entries, then call one of        *)
(* enrichVersionsWithHotfixData, buildHotfixRelationships, buildGraph (of   *)
(* either variant)                                                          *)
(***************************************************************************)
MaxEntries == 3

V1 == <<"v", "1">>
V2 == <<"v", "2">>

Marker(word, digits) == <<"-">> \o word \o <<".">> \o digits

\* a VersionHistoryEntry as the Forge CLI reports it
Entry(v, t, k) ==
    [ version |-> v,
      tag     |-> t,
      commit  |-> <<"commit", k>>,
      date    |-> <<"date", k>>,
      message |-> <<"message", k>> ]

\* the entries a history is collected from: two releases of v1 (one tagged
\* otherwise), hotfixes of v1 in and out of sequence order and with a tag
\* that differs from the version string, a hotfix of a hotfix, a hotfix
\* tagged like its base, a release of v2 that already carries derived
\* fields, and a hotfix of v2 under another suffix
EntryPool ==
    { Entry(V1, V1, 1),
      Entry(V1, <<"a">>, 2),
      Entry(V1 \o Marker(Fix, <<"1">>), V1 \o Marker(Fix, <<"1">>), 3),
      Entry(V1 \o Marker(Fix, <<"1", "0">>), V1 \o Marker(Fix, <<"1", "0">>), 4),
      Entry(V1 \o Marker(Fix, <<"2">>), <<"b">>, 5),
      Entry(V1 \o Marker(Fix, <<"1">>) \o Marker(Fix, <<"1">>),
            V1 \o Marker(Fix, <<"1">>) \o Marker(Fix, <<"1">>), 6),
      Entry(V1 \o Marker(Fix, <<"1">>), V1, 7),
      Spread(Entry(V2, <<"s">>, 8),
             [ isHotfix |-> TRUE, baseTag |-> V1, hotfixSequence |-> 7,
               children |-> << <<"z">> >> ]),
      Entry(V2 \o Marker(Patch, <<"1">>), V2 \o Marker(Patch, <<"1">>), 9),
      Entry(V1 \o Marker(Fix, <<"2">>), V1 \o Marker(Fix, <<"2">>), 10) }

\* the LayoutOptions a caller may pass: none, its own suffix list, its own spacing
LayoutOptionsPool ==
    { << >>,
      [hotfixSuffixes |-> <<Patch>>],
      [verticalSpacing |-> 10, horizontalSpacing |-> 20] }

GraphInit ==
    /\ versions = <<>>
    /\ layout \in LayoutOptionsPool
    /\ called = "none"
    /\ result = << >>
    /\ pushed = [mainLine |-> 0, base |-> 0, chain |-> 0]
    /\ previous = <<>>
    /\ UiIdle
    /\ version = <<>>
    /\ suffixes = <<>>
    /\ pieces = 0
    /\ parsed = FALSE
    /\ info = NotHotfix
    /\ baseInfo = <<>>

\* tags are git tags: no two entries of a history share one
AddEntry ==
    /\ called = "none"
    /\ Len(versions) < MaxEntries
    /\ \E e \in EntryPool :
          /\ \A i \in 1..Len(versions) : versions[i].tag # e.tag
          /\ versions' = Append(versions, e)
    /\ UNCHANGED <<layout, called, result, pushed, previous, parserVars, uiVars>>

CallEnrich ==
    /\ called = "none"
    /\ \E call \in { enrichVersionsWithHotfixData(versions, Options(layout).hotfixSuffixes) } :
          /\ versions' = call.versions
          /\ result' = call.returned
    /\ called' = "enrichVersionsWithHotfixData"
    /\ UNCHANGED <<layout, pushed, previous, parserVars, uiVars>>

CallBuildRelationships ==
    /\ called = "none"
    /\ \E call \in { buildHotfixRelationships(versions, Options(layout).hotfixSuffixes) } :
          /\ versions' = call.versions
          /\ result' = call.returned
    /\ called' = "buildHotfixRelationships"
    /\ UNCHANGED <<layout, pushed, previous, parserVars, uiVars>>

CallBuildGraph ==
    /\ called = "none"
    /\ \E call \in { buildGraph(versions, layout) } :
          /\ versions' = call.versions
          /\ result' = call.returned
          /\ pushed' = call.pushed
    /\ called' = "buildGraph"
    /\ UNCHANGED <<layout, previous, parserVars, uiVars>>

CallBuildGraphFirst ==
    /\ called = "none"
    /\ \E call \in { buildGraphFirst(versions, layout) } :
          /\ versions' = call.versions
          /\ result' = call.returned
          /\ pushed' = call.pushed
    /\ called' = "buildGraphFirst"
    /\ UNCHANGED <<layout, previous, parserVars, uiVars>>

\* MaxCalls: how often buildGraph is called on one history
MaxCalls == 2

\* buildGraph once more, with the array the earlier call left behind. The
\* only field of a VersionGraphLayout is options, assigned in the constructor
\* and nowhere else, so the same instance and a new one constructed with the
\* same LayoutOptions are the same callee.
CallBuildGraphAgain ==
    /\ called \in {"buildGraph", "buildGraphFirst"}
    /\ Len(previous) + 1 < MaxCalls
    /\ \E call \in { IF called = "buildGraph" THEN buildGraph(versions, layout)
                                             ELSE buildGraphFirst(versions, layout) } :
          /\ versions' = call.versions
          /\ result' = call.returned
          /\ pushed' = call.pushed
    /\ previous' = Append(previous, result)
    /\ UNCHANGED <<layout, called, parserVars, uiVars>>

GraphNext ==
    \/ AddEntry
    \/ CallEnrich
    \/ CallBuildRelationships
    \/ CallBuildGraph
    \/ CallBuildGraphFirst
    \/ CallBuildGraphAgain

GraphSpec == GraphInit /\ [][GraphNext]_vars

(***************************************************************************)
(* Claims about parseHotfixVersion                                         *)
(***************************************************************************)
\* the value of a digit string, position by position
RECURSIVE Pow10(_)
Pow10(k) == IF k = 0 THEN 1 ELSE 10 * Pow10(k - 1)

RECURSIVE DecimalValueFrom(_, _)
DecimalValueFrom(ds, i) ==
    IF i > Len(ds) THEN 0
    ELSE DigitOf(ds[i]) * Pow10(Len(ds) - i) + DecimalValueFrom(ds, i + 1)

DecimalValue(ds) == DecimalValueFrom(ds, 1)

\* v = <base> "-" <s> "." <digits> with a base of n >= 1 characters, s one
\* of the listed suffixes taken literally, and at least one digit
HasLiteralForm(v, n, s) ==
    /\ n >= 1
    /\ Len(v) >= n + Len(s) + 3
    /\ v[n + 1] = "-"
    /\ SubSeq(v, n + 2, n + 1 + Len(s)) = s
    /\ v[n + 2 + Len(s)] = "."
    /\ \A j \in (n + 3 + Len(s))..Len(v) : IsDigit(v[j])

LiteralForms(v, ss) ==
    { f \in (1..Len(v)) \X Range(ss) : HasLiteralForm(v, f[1], f[2]) }

\* C1: parseHotfixVersion reports a hotfix exactly for <base>-<suffix>.<digits>
\* with a listed suffix; then baseVersion is the text before the last marker,
\* suffix the listed suffix and sequence the digits' value; every other string
\* yields exactly {isHotfix: false}.
C1_HotfixFormExactly ==
    parsed =>
        LET forms == LiteralForms(version, suffixes) IN
        IF forms = {} THEN info = NotHotfix
        ELSE \E f \in forms :
                /\ \A g \in forms : g[1] <= f[1]
                /\ info = [ isHotfix    |-> TRUE,
                            baseVersion |-> SubSeq(version, 1, f[1]),
                            suffix      |-> f[2],
                            sequence    |-> DecimalValue(
                                SubSeq(version, f[1] + 3 + Len(f[2]), Len(version))) ]

\* C2: parseHotfixVersion is total: for every version and every suffix list it
\* returns a HotfixInfo value and never throws.
C2_ParseNeverThrows ==
    parsed => /\ ~Threw(info)
              /\ "isHotfix" \in DOMAIN info

\* C3: whenever a hotfix is reported, the reported suffix is literally one of
\* the elements of the supplied list (so no string is a hotfix under an empty list).
C3_SuffixFromSuppliedList ==
    (parsed /\ ~Threw(info) /\ info.isHotfix) => info.suffix \in Range(suffixes)

(***************************************************************************)
(* Claims about buildHotfixRelationships and enrichVersionsWithHotfixData  *)
(***************************************************************************)
\* the suffix list the calls of the graph harness are made with
SuffixesInUse == Options(layout).hotfixSuffixes

\* what the parser says about the version string of the i-th input entry
ParsedEntry(i) == parseHotfixVersion(versions[i].version, SuffixesInUse)

\* the parser's results for all input entries, as a sequence ps
ParsedEntries == SubSeq([i \in 1..Len(versions) |-> ParsedEntry(i)], 1, Len(versions))

\* the input entries (indices, in input order) that are hotfixes of base b
HotfixesOf(ps, b) ==
    SelectSeq(Indices(Len(ps)), LAMBDA i : ps[i].isHotfix /\ ps[i].baseVersion = b)

TagsOf(indices) == [k \in 1..Len(indices) |-> versions[indices[k]].tag]

SequencesOf(ps, indices) == [k \in 1..Len(indices) |-> ps[indices[k]].sequence]

\* the tags of the given hotfixes, ascending by their entries' sequence, equal
\* sequences in input order
BySequence(ps, indices) == SortByKeys(TagsOf(indices), SequencesOf(ps, indices))

GroupsOrderedByEntrySequence(ps) ==
    /\ { result[g].key : g \in 1..Len(result) }
          = { ps[i].baseVersion : i \in { j \in 1..Len(ps) : ps[j].isHotfix } }
    /\ \A g, h \in 1..Len(result) : result[g].key = result[h].key => g = h
    /\ \A g \in 1..Len(result) :
          result[g].value = BySequence(ps, HotfixesOf(ps, result[g].key))

\* C4: buildHotfixRelationships has one group per parsed base version, holding
\* the tags of exactly the hotfix entries of that base, ordered ascending by
\* the hotfixSequence of their entries, equal sequences in input order.
C4_GroupsOrderedByEntrySequence ==
    called = "buildHotfixRelationships" => GroupsOrderedByEntrySequence(ParsedEntries)

\* the derived fields of an enriched entry agree with the parser's result
DerivedFromParse(e, p) ==
    /\ Has(e, "isHotfix") /\ e.isHotfix = p.isHotfix
    /\ Has(e, "baseTag") <=> p.isHotfix
    /\ Has(e, "hotfixSequence") <=> p.isHotfix
    /\ p.isHotfix => e.baseTag = p.baseVersion /\ e.hotfixSequence = p.sequence

\* C5: every enriched entry has isHotfix as parsed from its version; baseTag
\* and hotfixSequence are present exactly when it is a hotfix and then equal
\* the parsed baseVersion and sequence, whatever the input entry carried.
C5_DerivedFieldsFromParse ==
    called = "enrichVersionsWithHotfixData" =>
        /\ Len(result) = Len(versions)
        /\ \A i \in 1..Len(versions) : DerivedFromParse(result[i], ParsedEntry(i))

\* an input entry that carried derived fields of a hotfix and is a release
C5_StaleFieldsReplaced ==
    /\ called = "enrichVersionsWithHotfixData"
    /\ \E i \in 1..Len(versions) :
          /\ Has(versions[i], "isHotfix") /\ versions[i].isHotfix
          /\ Has(versions[i], "baseTag")
          /\ ~result[i].isHotfix
          /\ ~Has(result[i], "baseTag")
    /\ \E i \in 1..Len(versions) : result[i].isHotfix /\ Has(result[i], "baseTag")

\* the children of an enriched entry are exactly the given tags, each once
HasChildren(e, tags) ==
    /\ Has(e, "children")
    /\ Range(e.children) = tags
    /\ Len(e.children) = Cardinality(tags)

\* the children of the i-th enriched entry are the tags of the entries whose
\* parsed base is the i-th entry's own version string
ChildrenOfOwnVersion(ps, i) ==
    HasChildren(result[i], Range(TagsOf(HotfixesOf(ps, versions[i].version))))

ChildrenOnlyOnReleases(ps) ==
    \A i \in 1..Len(ps) :
        IF ps[i].isHotfix THEN result[i].children = <<>>
        ELSE ChildrenOfOwnVersion(ps, i)

ChildrenOfEveryEntry(ps) == \A i \in 1..Len(ps) : ChildrenOfOwnVersion(ps, i)

InputFields == {"version", "tag", "commit", "date", "message"}

GraphBuilt == called \in {"buildGraph", "buildGraphFirst"}

\* C8: for a non-empty input buildGraph returns one node per input entry, in
\* input order, with id = tag and version, commit, date, message copied; no
\* entry is dropped or duplicated, hotfixes without base included.
C8_OneNodePerEntry ==
    (GraphBuilt /\ Len(versions) > 0) =>
        /\ Len(result.nodes) = Len(versions)
        /\ \A i \in 1..Len(versions) :
              /\ result.nodes[i].id = versions[i].tag
              /\ \A f \in InputFields \ {"tag"} : result.nodes[i][f] = versions[i][f]

\* p is a hotfix whose base matches no entry, neither by version nor by tag
Unlisted(p) ==
    /\ p.isHotfix
    /\ \A b \in 1..Len(versions) :
          versions[b].version # p.baseVersion /\ versions[b].tag # p.baseVersion

\* a graph of a full history with a hotfix whose base is not listed and an
\* entry whose tag is not its version
C8_OrphanKept ==
    /\ called = "buildGraph"
    /\ Len(versions) = MaxEntries
    /\ \E i \in 1..Len(versions) :
          Unlisted(ParsedEntry(i)) /\ result.nodes[i].id = versions[i].tag
    /\ \E i \in 1..Len(versions) : versions[i].tag # versions[i].version

\* the tags of the non-hotfix entries, in input order
MainLineTags(ps) == TagsOf(SelectSeq(Indices(Len(ps)), LAMBDA i : ~ps[i].isHotfix))

HotfixTags(ps) == { versions[i].tag : i \in { j \in 1..Len(ps) : ps[j].isHotfix } }

\* the edges between every two adjacent tags of a list
AdjacentPairs(tags) ==
    [k \in 1..(Len(tags) - 1) |-> [from |-> tags[k], to |-> tags[k + 1], isHotfix |-> FALSE]]

MainLineEdgesAdjacent(mainLine, hotfixes) ==
    /\ SelectSeq(result.edges, LAMBDA e : ~e.isHotfix) = AdjacentPairs(mainLine)
    /\ \A k \in 1..Len(result.edges) :
          ~result.edges[k].isHotfix =>
              result.edges[k].from \notin hotfixes /\ result.edges[k].to \notin hotfixes

\* C9: the isHotfix = false edges are exactly the adjacent pairs of the
\* non-hotfix entries in input order, each directed from the earlier to the
\* later entry, and none of them touches a hotfix node.
C9_MainLineEdgesAdjacent ==
    GraphBuilt =>
        MainLineEdgesAdjacent(MainLineTags(ParsedEntries), HotfixTags(ParsedEntries))

\* two releases with a hotfix listed between them are joined by an edge
C9_EdgeSkipsHotfix ==
    /\ called = "buildGraph"
    /\ Len(versions) = MaxEntries
    /\ \E i \in 2..(Len(versions) - 1) :
          /\ ParsedEntry(i).isHotfix
          /\ ~ParsedEntry(i - 1).isHotfix
          /\ ~ParsedEntry(i + 1).isHotfix
          /\ \E k \in 1..Len(result.edges) :
                result.edges[k] = [from |-> versions[i - 1].tag, to |-> versions[i + 1].tag,
                                   isHotfix |-> FALSE]

\* entry b is a node the base of hotfix p resolves to: the second variant
\* looks for the base among versions and tags, the first among tags
IsBaseOf(b, p) ==
    \/ versions[b].tag = p.baseVersion
    \/ called = "buildGraph" /\ versions[b].version = p.baseVersion

Resolved(p) == p.isHotfix /\ \E b \in 1..Len(versions) : IsBaseOf(b, p)

ResolvedHotfixes(ps) == SelectSeq(Indices(Len(ps)), LAMBDA i : Resolved(ps[i]))

\* the edges pushed by the loop over hotfix nodes
BaseEdgesEmitted == SubSeq(result.edges, pushed.mainLine + 1, pushed.mainLine + pushed.base)

BaseEdgePerResolvedHotfix(ps, resolved, emitted) ==
    /\ Len(emitted) = Len(resolved)
    /\ \A k \in 1..Len(resolved) :
          /\ emitted[k].to = versions[resolved[k]].tag
          /\ emitted[k].isHotfix
          /\ \E b \in 1..Len(versions) :
                IsBaseOf(b, ps[resolved[k]]) /\ emitted[k].from = versions[b].tag
    /\ \A i \in 1..Len(ps) :
          (ps[i].isHotfix /\ ~Resolved(ps[i])) =>
              /\ \A k \in 1..Len(emitted) : emitted[k].to # versions[i].tag
              /\ \E n \in 1..Len(result.nodes) : result.nodes[n].id = versions[i].tag

\* C10: every hotfix whose base resolves to a node gets exactly one base edge,
\* from that node's id to its own id with isHotfix = true; a hotfix whose
\* base resolves to no node gets no base edge and is still in the node list.
C10_BaseEdgePerResolvedHotfix ==
    GraphBuilt =>
        BaseEdgePerResolvedHotfix(ParsedEntries, ResolvedHotfixes(ParsedEntries),
                                  BaseEdgesEmitted)

\* a graph with a hotfix whose base is found by its version only, and a
\* hotfix whose base is not listed
C10_ResolvedAndOrphan ==
    /\ called = "buildGraph"
    /\ \E i \in 1..Len(versions) : Unlisted(ParsedEntry(i))
    /\ \E i \in 1..Len(versions) :
          /\ Resolved(ParsedEntry(i))
          /\ \A b \in 1..Len(versions) : versions[b].tag # ParsedEntry(i).baseVersion
    /\ pushed.base = 1

\* the edges pushed by the loop over the nodes that have children
ChainEdgesEmitted ==
    SubSeq(result.edges, pushed.mainLine + pushed.base + 1, Len(result.edges))

\* one isHotfix = true edge between every two adjacent tags of a list
ChainPairs(tags) ==
    [k \in 1..(Len(tags) - 1) |-> [from |-> tags[k], to |-> tags[k + 1], isHotfix |-> TRUE]]

\* for the non-hotfix entries from the i-th on, in input order: the chain of
\* each one's children, sorted by the sequence of the children's entries
RECURSIVE ChainsBySequence(_, _)
ChainsBySequence(ps, i) ==
    IF i > Len(ps) THEN <<>>
    ELSE (IF ps[i].isHotfix THEN <<>>
          ELSE ChainPairs(BySequence(ps, HotfixesOf(ps, versions[i].version))))
         \o ChainsBySequence(ps, i + 1)

\* C11: for every non-hotfix node with children c_1..c_n exactly the n-1
\* edges (c_i, c_i+1, isHotfix = true) are emitted, the children taken
\* ascending by the hotfixSequence of their entries, also when a child's tag
\* differs from its version string.
C11_ChainEdgesBySequence ==
    GraphBuilt => ChainEdgesEmitted = ChainsBySequence(ParsedEntries, 1)

\* two entries of the result with the same (from, to, isHotfix)
EmittedTwice(edges) ==
    \E k, m \in 1..Len(edges) : k # m /\ edges[k] = edges[m]

\* C12: the edge list returned by buildGraph holds no two entries with the
\* same (from, to, isHotfix).
C12_NoEdgeTwice ==
    GraphBuilt => ~EmittedTwice(result.edges)

\* the hotfix entries whose declared base is a hotfix entry and no release
NestedHotfixes(ps) ==
    SelectSeq(Indices(Len(ps)),
              LAMBDA i : /\ ps[i].isHotfix
                         /\ \E j \in 1..Len(ps) :
                               ps[j].isHotfix /\ versions[j].version = ps[i].baseVersion
                         /\ \A j \in 1..Len(ps) :
                               ~ps[j].isHotfix =>
                                   /\ versions[j].version # ps[i].baseVersion
                                   /\ versions[j].tag # ps[i].baseVersion)

\* node n lies where the orphan fallback puts nodes: one horizontalSpacing
\* off the main line and below its last node
AtOrphanFallback(n, nodes, options) ==
    /\ nodes[n].x = options.horizontalSpacing
    /\ nodes[n].y > MainLineMaxY(nodes)

NestedTreatedAsOrphan(nested, emitted) ==
    \A k \in 1..Len(nested) :
        /\ \A e \in 1..Len(emitted) : emitted[e].to # versions[nested[k]].tag
        /\ called = "buildGraph" =>
               AtOrphanFallback(nested[k], result.nodes, Options(layout))

\* C13: a hotfix whose declared base is itself a hotfix entry gets no base
\* edge and is placed with the orphan fallback, not relative to the hotfix
\* it names.
C13_NestedHotfixIsOrphan ==
    GraphBuilt => NestedTreatedAsOrphan(NestedHotfixes(ParsedEntries), BaseEdgesEmitted)

\* The primary axis is the one the main line runs along: y in the layout of
\* buildGraph (spaced by verticalSpacing), x in its first variant (spaced by
\* horizontalSpacing); the secondary axis is the other one.
FirstVariant == called = "buildGraphFirst"

Primary(node) == IF FirstVariant THEN node.x ELSE node.y

Secondary(node) == IF FirstVariant THEN node.y ELSE node.x

primaryAxisSpacing ==
    IF FirstVariant THEN Options(layout).horizontalSpacing ELSE Options(layout).verticalSpacing

branchAxisSpacing ==
    IF FirstVariant THEN Options(layout).verticalSpacing ELSE Options(layout).horizontalSpacing

MainLineIndices(ps) == SelectSeq(Indices(Len(ps)), LAMBDA i : ~ps[i].isHotfix)

MainLineOnBaseline(mainLine, nodes) ==
    \A k \in 1..Len(mainLine) :
        /\ Primary(nodes[mainLine[k]]) = (k - 1) * primaryAxisSpacing
        /\ Secondary(nodes[mainLine[k]]) = 0

BaseNodeOf(p) ==
    CHOOSE b \in 1..Len(versions) :
        IsBaseOf(b, p) /\ \A c \in 1..(b - 1) : ~IsBaseOf(c, p)

\* indices of entries, ascending by their sequence, equal sequences in input order
IndicesBySequence(ps, indices) == SortByKeys(indices, SequencesOf(ps, indices))

\* the hotfixes that declare the same base as entry i, by sequence
GroupOf(ps, i) == IndicesBySequence(ps, HotfixesOf(ps, ps[i].baseVersion))

HotfixesBesideBase(ps, nodes) ==
    \A i \in 1..Len(ps) :
        Resolved(ps[i]) =>
            /\ Primary(nodes[i]) = Primary(nodes[BaseNodeOf(ps[i])])
            /\ Secondary(nodes[i]) = (IndexIn(GroupOf(ps, i), i) + 1) * branchAxisSpacing

\* C15: every hotfix whose base resolves to a node has the primary-axis
\* coordinate of that base node's final position, and the hotfixes of one
\* base, ascending by hotfixSequence (stable), have the secondary-axis
\* offsets 1, 2, ... times branchAxisSpacing.
C15_HotfixesBesideBase ==
    called = "buildGraph" => HotfixesBesideBase(ParsedEntries, result.nodes)

\* node i lies where no other node lies, and not at the origin
AloneOffOrigin(nodes, i) ==
    /\ ~(nodes[i].x = 0 /\ nodes[i].y = 0)
    /\ \A j \in 1..Len(nodes) :
          j # i => ~(nodes[j].x = nodes[i].x /\ nodes[j].y = nodes[i].y)

OrphansApart(ps, nodes) ==
    /\ Len(nodes) = Len(ps)
    /\ \A i \in 1..Len(ps) :
          Unlisted(ps[i]) => nodes[i].id = versions[i].tag /\ AloneOffOrigin(nodes, i)

\* C16: with positive spacings every hotfix whose base matches no node is in
\* the node list, at a position other than (0,0) and other than the position
\* of every other node.
C16_OrphansApart ==
    (/\ GraphBuilt
     /\ Options(layout).horizontalSpacing > 0
     /\ Options(layout).verticalSpacing > 0) => OrphansApart(ParsedEntries, result.nodes)

\* the hotfixes whose base matches no entry, in input order
Orphans(ps) == SelectSeq(Indices(Len(ps)), LAMBDA i : Unlisted(ps[i]))

\* the largest primary-axis coordinate on the main line, 0 without one
MainLineEnd(mainLine, nodes) == Maximum({ Primary(nodes[i]) : i \in Range(mainLine) } \cup {0})

\* two nodes that differ by d along one axis and not at all along the other
Apart(a, b, d) ==
    \/ a.x = b.x /\ (b.y - a.y = d \/ a.y - b.y = d)
    \/ a.y = b.y /\ (b.x - a.x = d \/ a.x - b.x = d)

OrphansSpacedByBranchAxis(orphans, end, nodes) ==
    /\ \A k \in 1..Len(orphans) : Primary(nodes[orphans[k]]) > end
    /\ \A k \in 1..(Len(orphans) - 1) :
          Apart(nodes[orphans[k]], nodes[orphans[k + 1]], branchAxisSpacing)

\* C17 as stated: every orphan lies beyond the largest main-line primary-axis
\* coordinate, and two consecutive orphans are exactly one branchAxisSpacing
\* apart.
C17_OrphansSpacedByBranchAxis ==
    called = "buildGraph" =>
        OrphansSpacedByBranchAxis(Orphans(ParsedEntries),
                                  MainLineEnd(MainLineIndices(ParsedEntries), result.nodes),
                                  result.nodes)

OrphansSpacedByPrimaryAxis(orphans, end, nodes) ==
    \A k \in 1..Len(orphans) :
        /\ Secondary(nodes[orphans[k]]) = branchAxisSpacing
        /\ Primary(nodes[orphans[k]]) = end + k * primaryAxisSpacing

\* C17, amended: the k-th orphan in input order (k from 1) lies one
\* branchAxisSpacing off the baseline, at primary-axis coordinate
\* (largest main-line coordinate) + k * primaryAxisSpacing; two consecutive
\* orphans are one primaryAxisSpacing apart.
C17_OrphansSpacedByPrimaryAxis ==
    called = "buildGraph" =>
        OrphansSpacedByPrimaryAxis(Orphans(ParsedEntries),
                                   MainLineEnd(MainLineIndices(ParsedEntries), result.nodes),
                                   result.nodes)

\* two orphans next to a release, laid out with the caller's spacings
C17_TwoOrphans ==
    /\ called = "buildGraph"
    /\ Len(Orphans(ParsedEntries)) = 2
    /\ Len(MainLineIndices(ParsedEntries)) = 1
    /\ primaryAxisSpacing # DEFAULT_OPTIONS.verticalSpacing
    /\ result.nodes[Orphans(ParsedEntries)[2]].y = 2 * primaryAxisSpacing

BoundsAroundAllNodes(nodes, width, height) ==
    /\ horizontalPadding > 0
    /\ verticalPadding > 0
    /\ width = Maximum({ nodes[i].x : i \in 1..Len(nodes) }) + horizontalPadding
    /\ height = Maximum({ nodes[i].y : i \in 1..Len(nodes) }) + verticalPadding
    /\ \A i \in 1..Len(nodes) :
          /\ 0 <= nodes[i].x /\ nodes[i].x < width
          /\ 0 <= nodes[i].y /\ nodes[i].y < height

\* C18: for a non-empty input width is the largest x of all nodes plus
\* horizontalPadding and height the largest y of all nodes plus
\* verticalPadding, both paddings positive; every node has 0 <= x < width
\* and 0 <= y < height.
C18_BoundsAroundAllNodes ==
    (called = "buildGraph" /\ Len(versions) > 0) =>
        BoundsAroundAllNodes(result.nodes, result.width, result.height)

\* the width is decided by a hotfix beside its base and the height by an
\* orphan below the main line
C18_HotfixWidestOrphanLowest ==
    /\ called = "buildGraph"
    /\ \E i \in 1..Len(versions) :
          /\ Resolved(ParsedEntry(i))
          /\ result.width = result.nodes[i].x + horizontalPadding
          /\ result.nodes[i].x > 0
    /\ \E o \in 1..Len(versions) :
          /\ Unlisted(ParsedEntry(o))
          /\ result.height = result.nodes[o].y + verticalPadding
          /\ \E m \in 1..Len(versions) :
                ~ParsedEntry(m).isHotfix /\ result.nodes[m].y < result.nodes[o].y

EmptyGraph == [nodes |-> <<>>, edges |-> <<>>, width |-> 0, height |-> 0]

\* C19: on an empty input sequence buildGraph returns the empty graph
\* {nodes: [], edges: [], width: 0, height: 0}, whatever the options are.
C19_EmptyInputEmptyGraph ==
    (called = "buildGraph" /\ Len(versions) = 0) => result = EmptyGraph

\* buildGraph was called with no entries and a caller's own spacings
C19_EmptyWithOwnSpacings ==
    /\ called = "buildGraph"
    /\ Len(versions) = 0
    /\ layout = [verticalSpacing |-> 10, horizontalSpacing |-> 20]
    /\ result.nodes = <<>>
    /\ result.width = 0

InfoChain == <<info>> \o baseInfo

\* the strings the calls so far were made with
ParsedStrings == [k \in 1..Len(InfoChain) |-> IF k = 1 THEN version ELSE InfoChain[k - 1].baseVersion]

BaseParsesAsRelease(infos, strings) ==
    \A k \in 2..Len(infos) :
        /\ Len(strings[k]) < Len(strings[k - 1])
        /\ LiteralForms(strings[k], suffixes) = {} => infos[k] = NotHotfix

\* C21: when parseHotfixVersion(v, S) is a hotfix with baseVersion b, b is
\* strictly shorter than v, and if b does not end in a marker -<s>.<digits>
\* with s in S then parseHotfixVersion(b, S) is {isHotfix: false}.
C21_BaseParsesAsRelease ==
    parsed => BaseParsesAsRelease(InfoChain, ParsedStrings)

(***************************************************************************)
(* Claims about the graph as a whole                                       *)
(***************************************************************************)
NodeIds(nodes) == { nodes[n].id : n \in 1..Len(nodes) }

EdgesJoinTwoNodes(edges, ids) ==
    \A k \in 1..Len(edges) :
        /\ edges[k].from \in ids
        /\ edges[k].to \in ids
        /\ edges[k].from # edges[k].to

\* C25: every edge returned by buildGraph runs between the ids of two nodes
\* of the returned node list, and no edge runs from a node to itself.
C25_EdgesJoinTwoNodes ==
    called = "buildGraph" => EdgesJoinTwoNodes(result.edges, NodeIds(result.nodes))

NoTwoNodesAtOnePlace(nodes) ==
    \A i, j \in 1..Len(nodes) :
        (nodes[i].x = nodes[j].x /\ nodes[i].y = nodes[j].y) => i = j

\* C26: with positive spacings no two nodes returned by buildGraph have the
\* same (x, y).
C26_NoTwoNodesAtOnePlace ==
    (/\ called = "buildGraph"
     /\ Options(layout).horizontalSpacing > 0
     /\ Options(layout).verticalSpacing > 0) => NoTwoNodesAtOnePlace(result.nodes)

\* the entries that got a base edge from the node with id b, in input order
HotfixesFrom(b, emitted) ==
    SelectSeq(Indices(Len(versions)),
              LAMBDA i : \E e \in 1..Len(emitted) :
                             emitted[e].from = b /\ emitted[e].to = versions[i].tag)

\* the chain the hotfixes of base node b form: adjacent in sequence order
ChainOfBase(ps, b, emitted) ==
    Range(ChainPairs(TagsOf(IndicesBySequence(ps, HotfixesFrom(b, emitted)))))

ChainsOfBases(ps, emitted) ==
    UNION { ChainOfBase(ps, emitted[e].from, emitted) : e \in 1..Len(emitted) }

ChainsFollowBaseEdges(chain, expected) ==
    /\ Range(chain) = expected
    /\ Len(chain) = Cardinality(expected)

\* C27: a chain edge (h1 -> h2) exists exactly when h1 and h2 have a base
\* edge from the same base node and are adjacent in that node's sequence
\* order; a base with n resolved hotfixes has n base edges and n-1 chain
\* edges.
C27_ChainsFollowBaseEdges ==
    called = "buildGraph" =>
        ChainsFollowBaseEdges(ChainEdgesEmitted, ChainsOfBases(ParsedEntries, BaseEdgesEmitted))

(***************************************************************************)
(* extension.ts: the git tag watcher and its debounced update               *)
(***************************************************************************)
MaxWatcherEvents == 4

\* the three events of the FileSystemWatcher, all bound to debouncedGitUpdate
WatcherEventKinds == {"change", "create", "delete"}

\* neither the parser nor the graph functions are called
NoHistoryCalls ==
    /\ version = <<>>
    /\ suffixes = <<>>
    /\ pieces = 0
    /\ parsed = FALSE
    /\ info = NotHotfix
    /\ baseInfo = <<>>
    /\ versions = <<>>
    /\ layout = << >>
    /\ called = "none"
    /\ result = << >>
    /\ pushed = [mainLine |-> 0, base |-> 0, chain |-> 0]
    /\ previous = <<>>

\* a timer that is cleared never runs
KeepTimeout(pending, handle) == pending

\* clearTimeout(handle): the timer is no longer pending
clearTimeout(pending, handle) == pending \ {handle}

\* if (gitUpdateTimeout) { clearTimeout(gitUpdateTimeout); }
ClearGitUpdateTimeout(pending, handle) ==
    IF handle # 0 THEN clearTimeout(pending, handle) ELSE pending

\* setTimeout returns a handle no earlier call returned
NewHandle == Cardinality({ k \in 1..Len(gitLog) : gitLog[k] \in WatcherEventKinds }) + 1

DebounceInit ==
    /\ DebounceIdle
    /\ NoHistoryCalls
    /\ InstallIdle
    /\ TreeIdle
    /\ StatusIdle
    /\ PanelIdle

\* a watcher event calls debouncedGitUpdate
WatcherEvent ==
    /\ subscriptions = "live"
    /\ NewHandle <= MaxWatcherEvents
    /\ \E kind \in WatcherEventKinds : gitLog' = Append(gitLog, kind)
    /\ timers' = ClearGitUpdateTimeout(timers, gitUpdateTimeout) \cup {NewHandle}
    /\ gitUpdateTimeout' = NewHandle
    /\ UNCHANGED <<subscriptions, beyondDebounce>>

\* a pending timer runs its callback: refresh(), then updateVersion() is called
TimerFires ==
    /\ \E t \in timers : timers' = timers \ {t}
    /\ gitLog' = gitLog \o <<"refresh", "updateVersion">>
    /\ UNCHANGED <<gitUpdateTimeout, subscriptions, beyondDebounce>>

\* context.subscriptions are disposed: the watcher, then the timeout's disposable
DisposeSubscriptions ==
    /\ subscriptions = "live"
    /\ subscriptions' = "disposed"
    /\ timers' = ClearGitUpdateTimeout(timers, gitUpdateTimeout)
    /\ UNCHANGED <<gitUpdateTimeout, gitLog, beyondDebounce>>

DebounceNext ==
    \/ WatcherEvent
    \/ TimerFires
    \/ DisposeSubscriptions

\* a timer that is set and not cleared runs after its delay
DebounceSpec == DebounceInit /\ [][DebounceNext]_vars /\ WF_vars(TimerFires)

(***************************************************************************)
(* Claims about the debounced git update                                   *)
(***************************************************************************)
\* where the log stands: "idle" after a served burst, "burst" after an
\* event, "refreshed" between refresh and updateVersion, "broken" when a
\* call came without a burst before it or out of order
RECURSIVE BurstState(_, _, _)
BurstState(log, k, st) ==
    IF k > Len(log) THEN st
    ELSE BurstState(log, k + 1,
             IF st = "broken" THEN "broken"
             ELSE IF log[k] \in WatcherEventKinds
                  THEN (IF st \in {"idle", "burst"} THEN "burst" ELSE "broken")
             ELSE IF log[k] = "refresh"
                  THEN (IF st = "burst" THEN "refreshed" ELSE "broken")
             ELSE (IF st = "refreshed" THEN "idle" ELSE "broken"))

BurstOpen == BurstState(gitLog, 1, "idle") = "burst"

Debounced(st) ==
    /\ Cardinality(timers) <= 1
    /\ st \in {"idle", "burst"}
    /\ subscriptions = "live" => (timers # {} <=> st = "burst")
    /\ subscriptions = "disposed" => timers = {}

DebouncedNow == Debounced(BurstState(gitLog, 1, "idle"))

\* C22: at most one git-update timer is pending; every burst of watcher
\* events without a timer expiry in between is followed by exactly one
\* refresh() and then one updateVersion(), after the last event of the burst;
\* once the subscriptions are disposed no timer is pending.
C22_GitUpdateDebounced ==
    /\ []DebouncedNow
    /\ (BurstOpen ~> (~BurstOpen \/ subscriptions = "disposed"))

\* a burst of two events was served once, and a new burst has begun
C22_BurstServedOnce ==
    /\ gitLog = <<"change", "create", "refresh", "updateVersion", "delete">>
    /\ timers = {3}
    /\ subscriptions = "live"

(***************************************************************************)
(* ForgeService: checkInstallation, ensureInstalled, installForge           *)
(***************************************************************************)
MAX_RETRIES == 1

\* MaxTopLevelCalls: how often a command calls ensureInstalled()
MaxTopLevelCalls == 3

\* checkInstallation: the cached value if there is one, else what running
\* 'forge --version' yields; the value is cached and returned
checkInstallation(cached, inPath) ==
    IF cached # "null" THEN cached
    ELSE IF inPath THEN "installed" ELSE "missing"

\* a retry count that never counts as used up
RetriesNeverUsedUp(count) == FALSE

\* if (retryCount >= MAX_RETRIES)
RetriesUsedUp(count) == count >= MAX_RETRIES

\* the answers to 'Would you like to install it now?'; undefined when dismissed
InstallPromptAnswers == {"Install with Go", "Open Documentation", "Cancel", "undefined"}

InstallInit ==
    /\ installation = "null"
    /\ forgeInPath \in BOOLEAN
    /\ goInstalled \in BOOLEAN
    /\ installPc = "idle"
    /\ retryCount = 0
    /\ attempt = [topLevel |-> 0, calls |-> 0, prompts |-> 0, installs |-> 0, shown |-> <<>>]
    /\ returned = "none"
    /\ NoHistoryCalls
    /\ DebounceIdle
    /\ TreeIdle
    /\ StatusIdle
    /\ PanelIdle

\* return value: the top-level call is over
Return(value) ==
    /\ returned' = value
    /\ installPc' = "returned"

\* forge appears in or disappears from the PATH
PathChanges ==
    /\ forgeInPath' = ~forgeInPath
    /\ UNCHANGED <<installation, goInstalled, installPc, retryCount, attempt, returned,
                   beyondInstall>>

\* another component (the status bar) calls checkInstallation
CheckInstallation ==
    /\ installPc \in {"idle", "returned"}
    /\ installation' = checkInstallation(installation, forgeInPath)
    /\ UNCHANGED <<forgeInPath, goInstalled, installPc, retryCount, attempt, returned,
                   beyondInstall>>

\* ensureInstalled() is called
CallEnsureInstalled ==
    /\ installPc \in {"idle", "returned"}
    /\ attempt.topLevel < MaxTopLevelCalls
    /\ installPc' = "check"
    /\ retryCount' = 0
    /\ attempt' = [topLevel |-> attempt.topLevel + 1, calls |-> 1, prompts |-> 0,
                   installs |-> 0, shown |-> <<>>]
    /\ returned' = "none"
    /\ UNCHANGED <<installation, forgeInPath, goInstalled, beyondInstall>>

\* await this.checkInstallation() and the branches that follow it
EnsureChecked ==
    /\ installPc = "check"
    /\ installation' = checkInstallation(installation, forgeInPath)
    /\ IF installation' = "installed"
       THEN Return("true") /\ UNCHANGED attempt
       ELSE IF RetriesUsedUp(retryCount)
            THEN /\ Return("false")
                 /\ attempt' = [attempt EXCEPT !.shown = Append(@, "Please install it manually.")]
            ELSE /\ installPc' = "prompt"
                 /\ attempt' = [attempt EXCEPT
                                    !.prompts = @ + 1,
                                    !.shown = Append(@, "Would you like to install it now?")]
                 /\ UNCHANGED returned
    /\ UNCHANGED <<forgeInPath, goInstalled, retryCount, beyondInstall>>

\* the user answers or dismisses the install prompt
PromptAnswered ==
    /\ installPc = "prompt"
    /\ \E action \in InstallPromptAnswers :
          IF action = "Install with Go"
          THEN /\ installPc' = "goVersion"
               /\ attempt' = [attempt EXCEPT !.installs = @ + 1]
               /\ UNCHANGED returned
          ELSE Return("false") /\ UNCHANGED attempt
    /\ UNCHANGED <<installation, forgeInPath, goInstalled, retryCount, beyondInstall>>

\* installForge: 'go version' has run
GoVersionChecked ==
    /\ installPc = "goVersion"
    /\ IF goInstalled
       THEN installPc' = "goInstall" /\ UNCHANGED <<returned, attempt>>
       ELSE /\ Return("false")
            /\ attempt' = [attempt EXCEPT !.shown = Append(@, "Go is not installed.")]
    /\ UNCHANGED <<installation, forgeInPath, goInstalled, retryCount, beyondInstall>>

\* installForge: 'go install' has run; on success forge may or may not be in the PATH
GoInstallDone ==
    /\ installPc = "goInstall"
    /\ \E ok \in BOOLEAN :
          IF ok
          THEN /\ forgeInPath' \in BOOLEAN
               /\ installPc' = "verify"
               /\ UNCHANGED <<returned, attempt>>
          ELSE /\ Return("false")
               /\ attempt' = [attempt EXCEPT !.shown = Append(@, "Failed to install Forge")]
               /\ UNCHANGED forgeInPath
    /\ UNCHANGED <<installation, goInstalled, retryCount, beyondInstall>>

\* installForge: verifyInstallation; on success the cache is cleared and
\* ensureInstalled(retryCount + 1) is called
Verified ==
    /\ installPc = "verify"
    /\ IF checkInstallation("null", forgeInPath) = "installed"
       THEN /\ installation' = "null"
            /\ retryCount' = retryCount + 1
            /\ attempt' = [attempt EXCEPT
                               !.calls = @ + 1,
                               !.shown = Append(@, "Forge CLI installed successfully!")]
            /\ installPc' = "check"
            /\ UNCHANGED returned
       ELSE /\ installation' = "missing"
            /\ Return("false")
            /\ attempt' = [attempt EXCEPT !.shown = Append(@, "installed but not found in PATH")]
            /\ UNCHANGED retryCount
    /\ UNCHANGED <<forgeInPath, goInstalled, beyondInstall>>

\* the steps of the top-level call once it has begun
EnsureInstalledStep ==
    \/ EnsureChecked
    \/ PromptAnswered
    \/ GoVersionChecked
    \/ GoInstallDone
    \/ Verified

InstallNext ==
    \/ PathChanges
    \/ CheckInstallation
    \/ CallEnsureInstalled
    \/ EnsureChecked
    \/ PromptAnswered
    \/ GoVersionChecked
    \/ GoInstallDone
    \/ Verified

\* prompts are answered and child processes end
InstallSpec == InstallInit /\ [][InstallNext]_vars /\ WF_vars(EnsureInstalledStep)

(***************************************************************************)
(* Claims about ensureInstalled                                            *)
(***************************************************************************)
OneInstallAttempt ==
    /\ attempt.installs <= 1
    /\ attempt.calls <= 2
    /\ attempt.prompts <= 1
    /\ returned = "true" => checkInstallation(installation, forgeInPath) = "installed"

MaxHistory == 3

\* the versions forge may list: a release, one of its hotfixes, a hotfix of
\* another release under another suffix
TreeEntryPool ==
    { Entry(V1, V1, 1),
      Entry(V1 \o Marker(Fix, <<"1">>), V1 \o Marker(Fix, <<"1">>), 3),
      Entry(V2 \o Marker(Patch, <<"1">>), V2 \o Marker(Patch, <<"1">>), 9) }

\* values of the setting forge.hotfixSuffixes: its default, one word, no
\* word, a word holding a regex wildcard, a word holding an unbalanced group
TreeSuffixLists ==
    { <<Hotfix, Patch, Fix>>,
      <<Patch>>,
      <<>>,
      << <<"f", ".", "x">> >>,
      << <<"(">> >> }

\* new VersionTreeItem(label, None, itemType); a label is the sequence of
\* its parts
VersionTreeItem(label, itemType) == [label |-> label, itemType |-> itemType]

createVersionItem(entry) ==
    Spread(VersionTreeItem(entry.version, "tag"), [versionEntry |-> entry])

createGraphViewItem == VersionTreeItem(<<"View as Graph">>, "action")

createNoTagsItem == VersionTreeItem(<<"No tags found">>, "placeholder")

createNoConfigItem == VersionTreeItem(<<"No forge.yaml found">>, "placeholder")

createErrorItem(message) == VersionTreeItem(<<"Error: ", message>>, "error")

\* versions.some(v => isHotfixVersion(v.version, suffixes)), where no call threw
hasHotfixes(entries, ss) ==
    \E i \in 1..Len(entries) : parseHotfixVersion(entries[i].version, ss).isHotfix

\* the first call of isHotfixVersion throws when the pattern does not compile
hasHotfixesThrows(entries, ss) == entries # <<>> /\ ~RegExpCompiles(join(ss))

\* history.versions.map(version => this.createVersionItem(version))
VersionItems(entries) == [i \in 1..Len(entries) |-> createVersionItem(entries[i])]

getRootItems(config, fetch, entries, ss) ==
    IF config = "fails" THEN << createErrorItem("hasConfig failed") >>
    ELSE IF config = "absent" THEN << createNoConfigItem >>
    ELSE IF fetch = "fails" THEN << createErrorItem("getVersionHistory failed") >>
    ELSE IF entries = <<>> THEN << createNoTagsItem >>
    ELSE IF hasHotfixesThrows(entries, ss) THEN << createErrorItem("SyntaxError") >>
    ELSE (IF hasHotfixes(entries, ss) THEN << createGraphViewItem >> ELSE <<>>)
             \o VersionItems(entries)

TreeInit ==
    /\ treeConfig \in {"present", "absent", "fails"}
    /\ treeSuffixes \in TreeSuffixLists
    /\ treeFetch \in {"ok", "fails"}
    /\ treeHistory = <<>>
    /\ treeItems = <<>>
    /\ treeCalled = FALSE
    /\ NoHistoryCalls
    /\ DebounceIdle
    /\ InstallIdle
    /\ StatusIdle
    /\ PanelIdle

\* a tag is created: forge lists one more version
TagCreated ==
    /\ ~treeCalled
    /\ Len(treeHistory) < MaxHistory
    /\ \E e \in TreeEntryPool :
           /\ \A i \in 1..Len(treeHistory) : treeHistory[i] # e
           /\ treeHistory' = Append(treeHistory, e)
    /\ UNCHANGED <<treeConfig, treeSuffixes, treeFetch, treeItems, treeCalled, beyondTree>>

\* the tree view asks for its root items
CallGetRootItems ==
    /\ ~treeCalled
    /\ treeItems' = getRootItems(treeConfig, treeFetch, treeHistory, treeSuffixes)
    /\ treeCalled' = TRUE
    /\ UNCHANGED <<treeConfig, treeSuffixes, treeFetch, treeHistory, beyondTree>>

TreeNext == TagCreated \/ CallGetRootItems

TreeSpec == TreeInit /\ [][TreeNext]_vars

\* a listed version has the form <base>-<suffix>.<digits> with a listed suffix
ListsHotfix(entries, ss) ==
    \E i \in 1..Len(entries) : LiteralForms(entries[i].version, ss) # {}

\* what the tree is to show: the failures are those of the config check and
\* of the history retrieval
RootItemsToShow(config, fetch, entries, ss) ==
    IF config = "fails" THEN << createErrorItem("hasConfig failed") >>
    ELSE IF config = "absent" THEN << createNoConfigItem >>
    ELSE IF fetch = "fails" THEN << createErrorItem("getVersionHistory failed") >>
    ELSE IF entries = <<>> THEN << createNoTagsItem >>
    ELSE (IF ListsHotfix(entries, ss) THEN << createGraphViewItem >> ELSE <<>>)
             \o VersionItems(entries)

\* C24: getRootItems returns a list of items (it never throws): the error
\* item alone on a failure, the 'No forge.yaml found' item alone without a
\* config, the 'No tags found' item alone for an empty history, and else one
\* tag item per history entry in history order, preceded by the 'View as
\* Graph' item exactly when a listed version is a hotfix under the
\* configured suffixes.
C24_RootItems ==
    treeCalled =>
        treeItems = RootItemsToShow(treeConfig, treeFetch, treeHistory, treeSuffixes)

\* the same, for suffix lists of plain words (where the pattern built from
\* the list means the list)
C24_RootItemsForPlainWords ==
    (treeCalled /\ treeSuffixes \in { <<Hotfix, Patch, Fix>>, <<Patch>>, <<>> }) =>
        treeItems = RootItemsToShow(treeConfig, treeFetch, treeHistory, treeSuffixes)

C24_GraphItemAboveTags ==
    /\ treeCalled
    /\ Len(treeHistory) = 2
    /\ Len(treeItems) = 3
    /\ treeItems[1] = createGraphViewItem


(***************************************************************************)
(* The status bar: StatusBarManager                                        *)
(***************************************************************************)
MaxUpdateCalls == 2

\* the apps of a multi-app config; "" is the undefined of a single-app one
Apps == {"a", "b"}

\* what 'forge version' answers for an app
VersionOfApp(app) ==
    CASE app = "a" -> "1.0.0" [] app = "b" -> "2.0.0" [] OTHER -> "0.1.0"

VersionInfos(app) == { [version |-> VersionOfApp(app), dirty |-> d] : d \in BOOLEAN }

Environments == [installed : BOOLEAN, hasConfig : BOOLEAN, isGitRepo : BOOLEAN]

\* the item after showVersion(versionInfo, appName); the text is the
\* sequence of the template's parts
showVersion(item, versionInfo, appName) ==
    [ text            |-> << IF versionInfo.dirty THEN "$(warning)" ELSE "$(tag)",
                             " ",
                             appName,
                             IF appName # "" THEN ": " ELSE "",
                             versionInfo.version,
                             IF versionInfo.dirty THEN " (dirty)" ELSE "" >>,
      backgroundColor |-> IF versionInfo.dirty THEN "statusBarItem.warningBackground"
                          ELSE "undefined",
      command         |-> item.command,
      visible         |-> TRUE ]

showNotInstalled(item) ==
    [ text            |-> <<"$(alert)", " ", "Forge: Not Installed">>,
      backgroundColor |-> "statusBarItem.errorBackground",
      command         |-> "forge.install",
      visible         |-> TRUE ]

showNoConfig(item) ==
    [ text            |-> <<"$(file-add)", " ", "Forge: No Config">>,
      backgroundColor |-> item.backgroundColor,
      command         |-> "forge.init",
      visible         |-> TRUE ]

showNoGitRepo(item) ==
    [ text            |-> <<"$(alert)", " ", "Forge: No Git Repository">>,
      backgroundColor |-> "statusBarItem.warningBackground",
      command         |-> item.command,
      visible         |-> TRUE ]

showError(item) ==
    [ text            |-> <<"$(alert)", " ", "Forge: Error">>,
      backgroundColor |-> "statusBarItem.errorBackground",
      command         |-> "forge.showOutput",
      visible         |-> TRUE ]

\* updateVersion up to its await: app = appName || this.currentApp, then
\* getVersion({app}) is under way
StartUpdate(calls, appName, app, caller) ==
    Append(calls, [ app   |-> IF appName # "" THEN appName ELSE app,
                    by    |-> caller,
                    state |-> "pending" ])

StatusInit ==
    /\ statusBarItem = [ text |-> <<>>, backgroundColor |-> "undefined",
                         command |-> "forge.showVersionInfo", visible |-> FALSE ]
    /\ currentApp = ""
    /\ updates = <<>>
    /\ environment \in Environments
    /\ NoHistoryCalls
    /\ DebounceIdle
    /\ InstallIdle
    /\ TreeIdle
    /\ PanelIdle

\* forge is installed or removed, a config or a repository appears or goes
EnvironmentChanges ==
    /\ \E e \in Environments : e # environment /\ environment' = e
    /\ UNCHANGED <<statusBarItem, currentApp, updates, beyondStatus>>

\* initialize(): the three checks, then updateVersion() is under way
Initialize ==
    /\ IF ~environment.installed
       THEN statusBarItem' = showNotInstalled(statusBarItem) /\ UNCHANGED updates
       ELSE IF ~environment.hasConfig
       THEN statusBarItem' = showNoConfig(statusBarItem) /\ UNCHANGED updates
       ELSE IF ~environment.isGitRepo
       THEN statusBarItem' = showNoGitRepo(statusBarItem) /\ UNCHANGED updates
       ELSE /\ Len(updates) < MaxUpdateCalls
            /\ updates' = StartUpdate(updates, "", currentApp, "initialize")
            /\ UNCHANGED statusBarItem
    /\ UNCHANGED <<currentApp, environment, beyondStatus>>

\* updateVersion(appName) called by the git watcher or a command
CallUpdateVersion ==
    /\ Len(updates) < MaxUpdateCalls
    /\ \E appName \in Apps \cup {""} :
           updates' = StartUpdate(updates, appName, currentApp, "updateVersion")
    /\ UNCHANGED <<statusBarItem, currentApp, environment, beyondStatus>>

\* setCurrentApp(appName): the field is set, updateVersion() is started and
\* not awaited
SetCurrentApp ==
    /\ Len(updates) < MaxUpdateCalls
    /\ \E appName \in Apps \cup {""} :
           /\ currentApp' = appName
           /\ updates' = StartUpdate(updates, "", appName, "setCurrentApp")
    /\ UNCHANGED <<statusBarItem, environment, beyondStatus>>

\* forge answers getVersion for one of the calls under way: showVersion with
\* the app the call captured (after initialize, statusBarItem.show() follows)
GetVersionAnswers ==
    /\ environment.installed
    /\ \E i \in 1..Len(updates) :
           /\ updates[i].state = "pending"
           /\ \E versionInfo \in VersionInfos(updates[i].app) :
                  statusBarItem' = showVersion(statusBarItem, versionInfo, updates[i].app)
           /\ updates' = [updates EXCEPT ![i].state = "shown"]
    /\ UNCHANGED <<currentApp, environment, beyondStatus>>

\* getVersion rejects: the catch of updateVersion shows the error state
GetVersionFails ==
    /\ \E i \in 1..Len(updates) :
           /\ updates[i].state = "pending"
           /\ statusBarItem' = showError(statusBarItem)
           /\ updates' = [updates EXCEPT ![i].state = "failed"]
    /\ UNCHANGED <<currentApp, environment, beyondStatus>>

StatusNext ==
    \/ EnvironmentChanges
    \/ Initialize
    \/ CallUpdateVersion
    \/ SetCurrentApp
    \/ GetVersionAnswers
    \/ GetVersionFails

StatusSpec == StatusInit /\ [][StatusNext]_vars

\* the item displays a version: its text was last set by showVersion
DisplaysVersion ==
    /\ statusBarItem.text # <<>>
    /\ statusBarItem.text[1] \in {"$(warning)", "$(tag)"}

\* every call so far came from setCurrentApp, and each was answered with a version
OnlySelectionsAllShown ==
    /\ updates # <<>>
    /\ \A i \in 1..Len(updates) :
           updates[i].by = "setCurrentApp" /\ updates[i].state = "shown"

\* the text names the app and the app's version
ShowsVersionOf(app) ==
    /\ Len(statusBarItem.text) = 6
    /\ statusBarItem.text[3] = app
    /\ statusBarItem.text[5] = VersionOfApp(app)

\* C28: after setCurrentApp calls, once every updateVersion call they
\* started has completed (the answers arriving in any order), the status bar
\* text shows the version of the app selected last, with that app's prefix.
C28_ShowsSelectedApp ==
    (OnlySelectionsAllShown /\ DisplaysVersion) => ShowsVersionOf(currentApp)

\* two apps selected one after the other, both calls answered
C28_TwoSelectionsShown ==
    /\ OnlySelectionsAllShown
    /\ DisplaysVersion
    /\ Len(updates) = 2
    /\ updates[1].app = "a"
    /\ updates[2].app = "b"

DisplayedDirty == statusBarItem.text[1] = "$(warning)"

\* C29: whenever the status bar item displays a version, its click command
\* is 'forge.showVersionInfo' and its background is the warning colour
\* exactly when the version is dirty, whatever states were shown before.
C29_VersionCommandAndColour ==
    DisplaysVersion =>
        /\ statusBarItem.command = "forge.showVersionInfo"
        /\ (statusBarItem.backgroundColor = "statusBarItem.warningBackground")
               <=> DisplayedDirty

\* the colour half alone
C29_VersionColour ==
    DisplaysVersion =>
        ((statusBarItem.backgroundColor = "statusBarItem.warningBackground")
             <=> DisplayedDirty)

C29_VersionAfterError ==
    /\ DisplaysVersion
    /\ \E i \in 1..Len(updates) : updates[i].state = "failed"


(***************************************************************************)
(* The version graph panel: VersionGraphPanel                              *)
(***************************************************************************)
MaxShows == 3

\* the histories the graph command shows
PanelVersionLists ==
    { << Entry(V1, V1, 1) >>,
      << Entry(V1 \o Marker(Fix, <<"1">>), V1 \o Marker(Fix, <<"1">>), 3),
         Entry(V1, V1, 1) >> }

\* An optional LayoutOptions argument is a sequence of at most one object:
\* none for undefined. The field this.layoutOptions is held the same way,
\* none for the {} of the constructor.
PanelLayoutOptions ==
    { <<>>,
      << [hotfixSuffixes |-> <<Hotfix, Patch, Fix>>] >>,
      << [hotfixSuffixes |-> <<Patch>>] >>,
      << [hotfixSuffixes |-> << <<"(">> >>] >> }

LayoutOptionsOf(held) == IF held = <<>> THEN << >> ELSE held[1]

\* getHtmlContent throws when buildGraph does: a version is parsed with a
\* suffix list whose pattern does not compile
getHtmlContentThrows(vs, held) ==
    /\ vs # <<>>
    /\ ~RegExpCompiles(join(Options(LayoutOptionsOf(held)).hotfixSuffixes))

\* the page is generated from the graph of this.versions under this.layoutOptions
getHtmlContent(vs, held) == << buildGraph(vs, LayoutOptionsOf(held)).returned >>

\* update(versions, layoutOptions) on a panel's instance; when
\* getHtmlContent throws, the fields are set and the page is not
update(p, vs, given) ==
    [ p EXCEPT
        !.versions      = vs,
        !.layoutOptions = IF given # <<>> THEN given ELSE p.layoutOptions,
        !.html          = IF getHtmlContentThrows(vs, IF given # <<>> THEN given
                                                      ELSE p.layoutOptions)
                          THEN p.html
                          ELSE getHtmlContent(vs, IF given # <<>> THEN given
                                                  ELSE p.layoutOptions) ]

updateThrows(p, vs, given) ==
    getHtmlContentThrows(vs, IF given # <<>> THEN given ELSE p.layoutOptions)

\* createWebviewPanel followed by the constructor up to this.update: the
\* panel is live, the instance listens to nothing yet
createWebviewPanel ==
    [ live |-> TRUE, listening |-> FALSE, reveals |-> 0,
      versions |-> <<>>, layoutOptions |-> <<>>, html |-> <<>> ]

PanelInit ==
    /\ currentPanel = 0
    /\ panels = <<>>
    /\ shows = 0
    /\ lastShow = <<>>
    /\ NoHistoryCalls
    /\ DebounceIdle
    /\ InstallIdle
    /\ TreeIdle
    /\ StatusIdle

\* show with a current panel: reveal, then update (which may throw)
ShowReveals(vs, given) ==
    /\ currentPanel # 0
    /\ panels' = [panels EXCEPT ![currentPanel] =
                      update([panels[currentPanel] EXCEPT !.reveals = @ + 1],
                             vs, given)]
    /\ UNCHANGED currentPanel

\* show without one: the panel is created, the constructor updates it and
\* registers its listeners; currentPanel is assigned when the constructor
\* returns, and not when it throws
ShowCreates(vs, given) ==
    /\ currentPanel = 0
    /\ IF updateThrows(createWebviewPanel, vs, given)
       THEN /\ panels' = Append(panels, update(createWebviewPanel, vs, given))
            /\ UNCHANGED currentPanel
       ELSE /\ panels' = Append(panels,
                             [update(createWebviewPanel, vs, given)
                                  EXCEPT !.listening = TRUE])
            /\ currentPanel' = Len(panels) + 1

\* VersionGraphPanel.show(extensionUri, versions, layoutOptions)
Show ==
    /\ shows < MaxShows
    /\ \E vs \in PanelVersionLists, given \in PanelLayoutOptions :
           /\ ShowReveals(vs, given) \/ ShowCreates(vs, given)
           /\ lastShow' = <<[versions |-> vs, layoutOptions |-> given]>>
    /\ shows' = shows + 1
    /\ UNCHANGED beyondPanel

\* the user closes a panel: onDidDispose runs the instance's dispose(), if
\* the instance got to register it
UserClosesPanel ==
    /\ \E i \in 1..Len(panels) :
           /\ panels[i].live
           /\ panels' = [panels EXCEPT ![i].live = FALSE, ![i].listening = FALSE]
           /\ currentPanel' = IF panels[i].listening THEN 0 ELSE currentPanel
    /\ UNCHANGED <<shows, lastShow, beyondPanel>>

\* VersionGraphPanel.currentPanel.dispose()
DisposePanel ==
    /\ currentPanel # 0
    /\ currentPanel' = 0
    /\ panels' = [panels EXCEPT ![currentPanel].live = FALSE,
                                ![currentPanel].listening = FALSE]
    /\ UNCHANGED <<shows, lastShow, beyondPanel>>

PanelNext == Show \/ UserClosesPanel \/ DisposePanel

PanelSpec == PanelInit /\ [][PanelNext]_vars

LivePanels == { i \in 1..Len(panels) : panels[i].live }

\* at most one panel is live, and currentPanel is defined exactly when one is
OnePanel ==
    /\ Cardinality(LivePanels) <= 1
    /\ (currentPanel # 0) <=> (LivePanels # {})
    /\ currentPanel # 0 => currentPanel \in LivePanels

\* what a show call does: with a current panel no panel is created, the
\* panel is revealed and its page is the one of the new versions; without
\* one, a fresh live panel becomes the current one
ShowStep ==
    (shows' = shows + 1) =>
        IF currentPanel # 0
        THEN /\ Len(panels') = Len(panels)
             /\ currentPanel' = currentPanel
             /\ panels'[currentPanel].reveals = panels[currentPanel].reveals + 1
             /\ panels'[currentPanel].versions = lastShow'[1].versions
             /\ panels'[currentPanel].html =
                    getHtmlContent(lastShow'[1].versions,
                                   panels'[currentPanel].layoutOptions)
        ELSE /\ Len(panels') = Len(panels) + 1
             /\ currentPanel' = Len(panels')
             /\ panels'[currentPanel'].live

\* C30: the version graph panel is a singleton: after any sequence of show
\* calls and disposals at most one webview panel is live, currentPanel is
\* defined exactly when a live panel exists, show on an existing panel
\* reveals and updates it instead of creating a second one, and show after
\* a disposal creates a fresh panel.
C30_SingletonPanel == []OnePanel /\ [][ShowStep]_vars

\* suffix lists whose pattern compiles were passed so far
PanelOptionsCompile ==
    \A i \in 1..Len(panels) :
        RegExpCompiles(join(Options(LayoutOptionsOf(panels[i].layoutOptions)).hotfixSuffixes))

\* the same for calls whose suffix lists compile
C30_SingletonPanelWhenCompiling ==
    /\ [](PanelOptionsCompile => OnePanel)
    /\ [][(PanelOptionsCompile /\ PanelOptionsCompile') => ShowStep]_vars

C30_ShownAgainAfterDisposal ==
    /\ Len(panels) = 2
    /\ currentPanel = 2
    /\ panels[2].reveals = 1

============================================================================
